---- MODULE Spec2Model ----
(***************************************************************************)
(* Simplify CRM: the data-access layer (DataService cache, retry wrapper,  *)
(* activities sheet) and the activity domain logic (ActivitiesService).    *)
(***************************************************************************)
EXTENDS Integers, Sequences, FiniteSets, TLC

(***************************************************************************)
(* Program constants                                                       *)
(***************************************************************************)
CACHE_TTL == 300000
MAX_RETRIES == 3
RETRY_DELAY == 1000

(***************************************************************************)
(* Bounds of the model                                                     *)
(***************************************************************************)
MaxTicks == 2
MaxAttempts == 3
MaxRows == 3
MaxIds == 3
MaxHistory == 2
MaxHistoryDeep == 3
MaxCalls == 3
MaxSheetRows == 2
MaxListed == 3
MaxFieldRows == 3
MaxForms == 2
MaxValueRows == 3
MaxSaves == 2
MaxCompanies == 1
MaxCreated == 1

VARIABLES
    cache,      \* DataService.cache: key -> [value, timestamp]
    now,        \* Date.now()
    ticks,      \* number of clock advances so far
    lastGet,    \* the getCache call that has just returned, if any
    setLog,     \* per key: the latest setCache not followed by a clearCache
    retry,      \* one run of DataService.retryRequest
    sheet,      \* the Activities sheet from row 2 on (cell strings)
    companyHistory, \* the HistoriaFirm sheet, rows appended so far
    contactHistory, \* the HistoriaKontaktow sheet, rows appended so far
    nextId,     \* number of ids generateId has handed to activities
    typeMeta,   \* CONFIG.ACTIVITIES.TYPES: type id -> metadata
    lastOp,     \* the ActivitiesService call that has just ended, if any
    call,       \* a synchronous ActivitiesService helper: arguments, result
    remote,     \* the other sheets of the spreadsheet, by sheet name
    io,         \* the DataService call in progress or just ended
    batch,      \* one run of DataService.loadAllData
    fields,     \* the CustomFields sheet from row 2 on (cell strings)
    fieldValues, \* the CustomFieldValues sheet from row 2 on
    settings,   \* the settings page: allDefs, the modal, submissions in flight
    saves,      \* the saveCustomFieldValues calls in flight
    ui,         \* CustomFieldsUI: the container and the calls made on it
    ai,         \* AIService: its response cache, key, provider, enabled
                \* flag, and the last lookup and generateContent call
    peer        \* two sessions, each with its DataService.cache, on one sheet

cacheVars == <<cache, now, ticks, lastGet, setLog>>
storeVars == <<sheet, companyHistory, contactHistory, nextId, typeMeta, lastOp>>
valueVars == <<fieldValues, saves>>
otherVars == <<ui, ai, peer>>
moreVars == <<fields, valueVars, settings, otherVars>>
auxVars == <<call, remote, io, batch, moreVars>>
vars == <<cache, now, ticks, lastGet, setLog, retry, sheet, companyHistory,
          contactHistory, nextId, typeMeta, lastOp, call, remote, io, batch,
          fields, fieldValues, settings, saves, ui, ai, peer>>

(***************************************************************************)
(* DataService cache                                                       *)
(***************************************************************************)
CacheKeys == {"activities", "companies"}
CacheValues == {<<"r1">>, <<"r1", "r2">>}
ClockSteps == {1, CACHE_TTL}

Miss == [hit |-> FALSE, value |-> <<>>]
Hit(v) == [hit |-> TRUE, value |-> v]
NoGet == [key |-> "", at |-> 0, result |-> Miss]

\* Map.set(key, item)
MapSet(m, key, item) ==
    [k \in DOMAIN m \cup {key} |-> IF k = key THEN item ELSE m[k]]

\* Map.delete(key)
MapDelete(m, key) == [k \in DOMAIN m \ {key} |-> m[k]]

\* Map.clear()
EmptyMap == [k \in {} |-> Miss]

\* the operands of the expiry test swapped: the difference is never positive
ExpiredSwapped(item, t) == item.timestamp - t > CACHE_TTL

\* Date.now() - item.timestamp > this.CACHE_TTL
Expired(item, t) == t - item.timestamp > CACHE_TTL

\* cache state after setCache(key, value) at time t
CacheAfterSet(c, key, value, t) ==
    MapSet(c, key, [value |-> value, timestamp |-> t])

\* value returned by getCache(key) at time t
GetCacheResult(c, key, t) ==
    IF key \notin DOMAIN c THEN Miss
    ELSE IF Expired(c[key], t) THEN Miss
    ELSE Hit(c[key].value)

\* cache state after getCache(key) at time t
CacheAfterGet(c, key, t) ==
    IF key \in DOMAIN c /\ Expired(c[key], t) THEN MapDelete(c, key) ELSE c

\* cache state after clearCache(key); key = "" stands for a falsy argument
CacheAfterClear(c, key) ==
    IF key # "" THEN MapDelete(c, key) ELSE EmptyMap

SetCache(key, value) ==
    /\ cache' = CacheAfterSet(cache, key, value, now)
    /\ setLog' = MapSet(setLog, key, [value |-> value, at |-> now])
    /\ lastGet' = NoGet
    /\ UNCHANGED <<now, ticks, retry, storeVars, auxVars>>

GetCache(key) ==
    /\ lastGet' = [key |-> key, at |-> now,
                   result |-> GetCacheResult(cache, key, now)]
    /\ cache' = CacheAfterGet(cache, key, now)
    /\ UNCHANGED <<now, ticks, setLog, retry, storeVars, auxVars>>

ClearCache(key) ==
    /\ cache' = CacheAfterClear(cache, key)
    /\ setLog' = IF key # "" THEN MapDelete(setLog, key) ELSE EmptyMap
    /\ lastGet' = NoGet
    /\ UNCHANGED <<now, ticks, retry, storeVars, auxVars>>

Tick(d) ==
    /\ ticks < MaxTicks
    /\ now' = now + d
    /\ ticks' = ticks + 1
    /\ lastGet' = NoGet
    /\ UNCHANGED <<cache, setLog, retry, storeVars, auxVars>>

\* settings.js before the page has loaded anything: allDefs = [],
\* editingRowIndex = null, editingDef = null, no submission in flight
NoSettings ==
    [allDefs |-> <<>>, editingRowIndex |-> -1, editingDef |-> <<>>,
     forms |-> <<>>]

\* CustomFieldsUI before any call, on an empty container
NoUi ==
    [fn |-> "none", variant |-> 0, defs |-> <<>>, values |-> <<>>,
     container |-> <<>>, result |-> <<>>, rows |-> <<>>]

\* AIService.responseCache (ai_response_cache in localStorage) when empty,
\* and the cache lookup of the last generateContent call
\* no generateContent call has been made since the last init
NoGen ==
    [kind |-> "none", args |-> <<>>, force |-> FALSE, response |-> <<>>,
     contacted |-> "none"]

\* static API_KEY = null; PROVIDER = 'gemini'; enabled = false
NoAi ==
    [cache |-> EmptyMap, last |-> NoGet, apiKey |-> "null",
     provider |-> "gemini", enabled |-> FALSE, init |-> "never",
     gen |-> NoGen]

\* the sessions (browser tabs) open on the same spreadsheet
Sessions == {1, 2}

\* no values.get of a session is in flight
NoRead == [pc |-> "idle", rows |-> <<>>, at |-> 0]

\* no loadCompanies call has returned yet
NoLoad ==
    [session |-> 0, cached |-> FALSE, value |-> <<>>, stale |-> 0, lag |-> 0]

\* the Firmy sheet empty, both sessions with an empty cache and no request in
\* flight; until[n] is the instant the sheet stopped holding n - 1 rows,
\* row[s] the row the save in flight of session s appended and done[s] the
\* row its last completed save appended
NoPeer ==
    [store |-> <<>>,
     until |-> <<>>,
     cache |-> [s \in Sessions |-> EmptyMap],
     lag |-> [s \in Sessions |-> 0],
     read |-> [s \in Sessions |-> NoRead],
     write |-> [s \in Sessions |-> "idle"],
     row |-> [s \in Sessions |-> 0],
     done |-> [s \in Sessions |-> 0],
     last |-> NoLoad]

\* no AI response is cached and the second session has loaded nothing
InitOther ==
    /\ ui = NoUi
    /\ ai = NoAi
    /\ peer = NoPeer

\* no custom fields are defined and none has a value
InitMore ==
    /\ fields = <<>>
    /\ fieldValues = <<>>
    /\ settings = NoSettings
    /\ saves = <<>>
    /\ InitOther

(***************************************************************************)
(* The AI response cache, run side by side with the DataService cache      *)
(***************************************************************************)
\* AIService.CACHE_TTL
AI_CACHE_TTL == 600000

\* now - entry.timestamp < CACHE_TTL, for a cache whose TTL is ttl
AiFresh(entry, t, ttl) == t - entry.timestamp < ttl

\* what getCachedResponse(cacheKey) returns at time t
AiGetResult(c, key, t, ttl) ==
    IF key \notin DOMAIN c THEN Miss
    ELSE IF AiFresh(c[key], t, ttl) THEN Hit(c[key].value)
    ELSE Miss

\* the response cache after getCachedResponse(cacheKey) at time t
AiAfterGet(c, key, t, ttl) ==
    IF key \in DOMAIN c /\ ~AiFresh(c[key], t, ttl) THEN MapDelete(c, key)
    ELSE c

\* setCache(key, value) and setCachedResponse(key, value) at the same time
BothSet(key, value) ==
    /\ cache' = CacheAfterSet(cache, key, value, now)
    /\ setLog' = MapSet(setLog, key, [value |-> value, at |-> now])
    /\ lastGet' = NoGet
    /\ ai' = [ai EXCEPT !.cache = MapSet(ai.cache, key,
                                         [value |-> value,
                                          timestamp |-> now]),
                        !.last = NoGet]
    /\ UNCHANGED <<now, ticks, retry, storeVars, call, remote, io, batch,
                   fields, valueVars, settings, ui, peer>>

\* getCache(key) and getCachedResponse(key) at the same time, the response
\* cache given the TTL of the DataService cache
BothGet(key) ==
    /\ lastGet' = [key |-> key, at |-> now,
                   result |-> GetCacheResult(cache, key, now)]
    /\ cache' = CacheAfterGet(cache, key, now)
    /\ ai' = [ai EXCEPT !.cache = AiAfterGet(ai.cache, key, now, CACHE_TTL),
                        !.last = [key |-> key, at |-> now,
                                  result |-> AiGetResult(ai.cache, key, now,
                                                         CACHE_TTL)]]
    /\ UNCHANGED <<now, ticks, setLog, retry, storeVars, call, remote, io,
                   batch, fields, valueVars, settings, ui, peer>>

(***************************************************************************)
(* Two sessions loading and saving companies over one sheet                *)
(***************************************************************************)
\* how long before now the sheet last held the rows v (0 when it holds them)
Staleness(v) ==
    IF peer.store = v THEN 0 ELSE now - peer.until[Len(v) + 1]

\* loadCompanies(useCache) up to its return from the cache or to the sending
\* of values.get
LoadCompaniesStart(s, useCache) ==
    /\ peer.read[s].pc = "idle"
    /\ LET c == peer.cache[s]
           res == GetCacheResult(c, "companies", now)
           after == IF useCache THEN CacheAfterGet(c, "companies", now)
                    ELSE c
       IN  IF useCache /\ res.hit
           THEN peer' = [peer EXCEPT
                    !.last = [session |-> s, cached |-> TRUE,
                              value |-> res.value,
                              stale |-> Staleness(res.value),
                              lag |-> peer.lag[s]]]
           ELSE peer' = [peer EXCEPT
                    !.cache[s] = after,
                    !.read[s] = [pc |-> "sent", rows |-> <<>>, at |-> 0],
                    !.last = NoLoad]
    /\ UNCHANGED <<cacheVars, retry, storeVars, call, remote, io, batch,
                   fields, valueVars, settings, ui, ai>>

\* the Sheets API serves the values.get of session s from the sheet
ValuesGetServed(s) ==
    /\ peer.read[s].pc = "sent"
    /\ peer' = [peer EXCEPT
           !.read[s] = [pc |-> "served", rows |-> peer.store, at |-> now],
           !.last = NoLoad]
    /\ UNCHANGED <<cacheVars, retry, storeVars, call, remote, io, batch,
                   fields, valueVars, settings, ui, ai>>

\* every attempt of retryRequest failed: loadCompanies throws, nothing cached
ValuesGetFails(s) ==
    /\ peer.read[s].pc = "sent"
    /\ peer' = [peer EXCEPT !.read[s] = NoRead, !.last = NoLoad]
    /\ UNCHANGED <<cacheVars, retry, storeVars, call, remote, io, batch,
                   fields, valueVars, settings, ui, ai>>

\* the response reaches session s: setCache('companies', companies), return
LoadCompaniesReturns(s) ==
    /\ peer.read[s].pc = "served"
    /\ LET rows == peer.read[s].rows
       IN  peer' = [peer EXCEPT
               !.cache[s] = CacheAfterSet(@, "companies", rows, now),
               !.lag[s] = now - peer.read[s].at,
               !.read[s] = NoRead,
               !.last = [session |-> s, cached |-> FALSE,
                         value |-> rows, stale |-> Staleness(rows),
                         lag |-> now - peer.read[s].at]]
    /\ UNCHANGED <<cacheVars, retry, storeVars, call, remote, io, batch,
                   fields, valueVars, settings, ui, ai>>

\* saveCompany(company) of session s: the Sheets API appends the row
SaveCompanyServed(s) ==
    /\ peer.write[s] = "idle"
    /\ Len(peer.store) < MaxCompanies
    /\ peer' = [peer EXCEPT
           !.store = Append(@, "c" \o ToString(Len(@) + 1)),
           !.until = Append(@, now),
           !.write[s] = "served",
           !.row[s] = Len(peer.store) + 1,
           !.last = NoLoad]
    /\ UNCHANGED <<cacheVars, retry, storeVars, call, remote, io, batch,
                   fields, valueVars, settings, ui, ai>>

\* the response reaches session s: clearCache('companies'), return
SaveCompanyReturns(s) ==
    /\ peer.write[s] = "served"
    /\ peer' = [peer EXCEPT
           !.cache[s] = CacheAfterClear(@, "companies"),
           !.write[s] = "idle",
           !.done[s] = peer.row[s],
           !.last = NoLoad]
    /\ UNCHANGED <<cacheVars, retry, storeVars, call, remote, io, batch,
                   fields, valueVars, settings, ui, ai>>

(***************************************************************************)
(* DataService.retryRequest                                                *)
(***************************************************************************)
FnErrors == {"e1", "e2", "e3"}
FnValues == {"ok1", "ok2"}
AttemptCounts == 0 .. MaxAttempts

NoOutcome == [kind |-> "none", val |-> ""]
RetryIdle ==
    [pc |-> "idle", max |-> 0, i |-> 0, calls |-> 0, thrown |-> <<>>,
     returned |-> <<>>, waits |-> <<>>, outcome |-> NoOutcome]

\* the last attempt taken for the one after it
IsLastAttemptOffByOne(i, max) == i = max

\* i === maxRetries - 1
IsLastAttempt(i, max) == i = max - 1

\* the attempt number used for the attempt index
BackoffDelayFromOne(i) == RETRY_DELAY * 2 ^ (i + 1)

\* CONFIG.API.RETRY_DELAY * Math.pow(2, i)
BackoffDelay(i) == RETRY_DELAY * 2 ^ i

\* the loop test i < maxRetries; leaving the loop returns undefined
LoopEnter(r) ==
    IF r.i < r.max THEN [r EXCEPT !.pc = "call"]
    ELSE [r EXCEPT !.pc = "done",
                   !.outcome = [kind |-> "undefined", val |-> ""]]

\* the run r after fn has returned v: return await fn()
Returned(r, v) ==
    [r EXCEPT !.pc = "done",
              !.calls = @ + 1,
              !.returned = Append(@, v),
              !.outcome = [kind |-> "value", val |-> v]]

\* the run r after fn has thrown e: rethrow on the last attempt, else start
\* the backoff wait
Thrown(r, e) ==
    IF IsLastAttempt(r.i, r.max)
    THEN [r EXCEPT !.pc = "done",
                   !.calls = @ + 1,
                   !.thrown = Append(@, e),
                   !.outcome = [kind |-> "error", val |-> e]]
    ELSE [r EXCEPT !.pc = "wait",
                   !.calls = @ + 1,
                   !.thrown = Append(@, e),
                   !.waits = Append(@, BackoffDelay(r.i))]

\* the run r after the backoff timer has fired: i++ and the loop test
TimerFired(r) == LoopEnter([r EXCEPT !.i = @ + 1])

RetryStart(n) ==
    /\ retry.pc = "idle"
    /\ retry' = LoopEnter([RetryIdle EXCEPT !.max = n])
    /\ UNCHANGED <<cacheVars, storeVars, auxVars>>

\* return await fn()
RetryFnReturns(v) ==
    /\ retry.pc = "call"
    /\ retry' = Returned(retry, v)
    /\ UNCHANGED <<cacheVars, storeVars, auxVars>>

\* catch (error): rethrow on the last attempt, else start the backoff wait
RetryFnThrows(e) ==
    /\ retry.pc = "call"
    /\ retry' = Thrown(retry, e)
    /\ UNCHANGED <<cacheVars, storeVars, auxVars>>

\* the setTimeout of the backoff resolves; i++ and the loop test
RetryTimerFires ==
    /\ retry.pc = "wait"
    /\ retry' = TimerFired(retry)
    /\ UNCHANGED <<cacheVars, storeVars, auxVars>>

(***************************************************************************)
(* Values of the activity model                                            *)
(***************************************************************************)
Undef == "undefined"

\* JavaScript falsiness of a string-or-undefined value
Falsy(x) == x \in {Undef, ""}

\* x || d
Or(x, d) == IF Falsy(x) THEN d ELSE x

Fields ==
    {"id", "type", "title", "date", "notes", "companyId", "contactId",
     "status", "createdBy", "createdAt"}
BlankRow == [f \in Fields |-> ""]
NoUpdates == [f \in {} |-> ""]

\* new Date().toISOString()
NowISO == "2024-03-01T12:00:00.000Z"
\* AuthService.getUserEmail()
UserEmail == "user@crm.pl"
\* AuthService.getUserDisplayText()
UserDisplayText == "Jan (user@crm.pl)"

\* the strings the model uses as dates, and whether new Date(d) parses them
DateParses(d) == d \in {"2024-01-15", "2024-02-20", NowISO}

\* DataService.generateId(), the n-th id handed out
IdOf(n) == "id_" \o ToString(n)

\* CONFIG.ACTIVITIES.TYPES: the type ids and the metadata each may carry
TypeIds == {"EMAIL", "PHONE", "MEETING", "TASK"}
MetaChoices ==
    {[t \in TypeIds |-> [requiresTitle |-> a, requiresDate |-> b]] :
        a \in BOOLEAN, b \in BOOLEAN}
TypeLabel(t) ==
    CASE t = "EMAIL" -> "Email"
      [] t = "PHONE" -> "Telefon"
      [] t = "MEETING" -> "Spotkanie"
      [] t = "TASK" -> "Zadanie"
      [] OTHER -> t
\* typeLabel.toLowerCase() on the labels and type ids of the model
ToLowerCase(label) ==
    CASE label = "Email" -> "email"
      [] label = "Telefon" -> "telefon"
      [] label = "Spotkanie" -> "spotkanie"
      [] label = "Zadanie" -> "zadanie"
      [] label = "FAX" -> "fax"
      [] OTHER -> label

(***************************************************************************)
(* The spreadsheet API on the Activities sheet.  sheet[p] is sheet row     *)
(* p + 1: row 1 is the header and the ranges of the code start at row 2.   *)
(***************************************************************************)
RECURSIVE TrimBlank(_)
\* trailing empty rows are not part of the data of a sheet
TrimBlank(rows) ==
    IF rows # <<>> /\ rows[Len(rows)] = BlankRow
    THEN TrimBlank(SubSeq(rows, 1, Len(rows) - 1))
    ELSE rows

\* valueInputOption USER_ENTERED: a cell is parsed as if typed; a formula is
\* evaluated and reads back as its value
UserEntered(cell) == IF cell = "=1+1" THEN "2" ELSE cell

\* values.get on A2:J
SheetGet(rows) == rows

\* values.append on A:J: the row goes after the last row of the data
SheetAppend(rows, row) ==
    Append(rows, [f \in Fields |-> UserEntered(row[f])])

\* values.update on A<n>:J<n>
SheetUpdate(rows, n, row) ==
    [rows EXCEPT ![n - 1] = [f \in Fields |-> UserEntered(row[f])]]

\* values.clear on A<n>:J<n>: the row is blanked, not removed
SheetClear(rows, n) ==
    IF n - 1 \in 1 .. Len(rows)
    THEN TrimBlank([rows EXCEPT ![n - 1] = BlankRow])
    ELSE rows

(***************************************************************************)
(* DataService: activities                                                 *)
(***************************************************************************)
\* the row mapping of loadActivities
RowToActivity(row) ==
    [f \in Fields |-> IF f = "status" THEN Or(row[f], "planned")
                      ELSE Or(row[f], "")]

\* rows.map(...).filter(a => a.id)
MapRows(rows) ==
    LET all == [p \in 1 .. Len(rows) |-> RowToActivity(rows[p])]
        HasId(a) == ~Falsy(a.id)
    IN SelectSeq(all, HasId)

\* the values row of saveActivity
ActivityToRow(a) ==
    [f \in Fields |->
        CASE f = "status" -> Or(a[f], "planned")
          [] f = "createdBy" -> Or(a[f], Or(UserEmail, ""))
          [] f = "createdAt" -> Or(a[f], NowISO)
          [] OTHER -> Or(a[f], "")]

\* rowIndex + 2 in the ranges of saveActivity and deleteActivity
RowNumber(rowIndex) == rowIndex + 2

\* cache and its log after setCache / clearCache, as one pair
CSet(cs, key, value, t) ==
    [c |-> CacheAfterSet(cs.c, key, value, t),
     log |-> MapSet(cs.log, key, [value |-> value, at |-> t])]
CClear(cs, key) ==
    [c |-> CacheAfterClear(cs.c, key), log |-> MapDelete(cs.log, key)]

\* what loadActivities(useCache) returns
LoadActivitiesResult(c, rows, useCache, t) ==
    IF useCache /\ GetCacheResult(c, "activities", t).hit
    THEN GetCacheResult(c, "activities", t).value
    ELSE MapRows(SheetGet(rows))

\* cache after loadActivities(useCache)
LoadActivitiesCache(cs, rows, useCache, t) ==
    IF useCache /\ GetCacheResult(cs.c, "activities", t).hit
    THEN cs
    ELSE CSet([cs EXCEPT !.c = IF useCache
                                THEN CacheAfterGet(cs.c, "activities", t)
                                ELSE cs.c],
              "activities", MapRows(SheetGet(rows)), t)

\* sheet after saveActivity(activity, rowIndex); rowIndex = -1 stands for null
SaveActivitySheet(rows, a, rowIndex) ==
    IF rowIndex # -1
    THEN SheetUpdate(rows, RowNumber(rowIndex), ActivityToRow(a))
    ELSE SheetAppend(rows, ActivityToRow(a))

\* sheet after DataService.deleteActivity(rowIndex)
DeleteActivitySheet(rows, rowIndex) == SheetClear(rows, RowNumber(rowIndex))

(***************************************************************************)
(* DataService: history                                                    *)
(***************************************************************************)
\* generateId() for the next row of a history sheet
HistoryId(h) == "h_" \o ToString(Len(h) + 1)

\* the entry appended whatever the target is
LogHistoryAlways(h, target, type, content, meta) ==
    Append(h, [id |-> UserEntered(HistoryId(h)),
               target |-> UserEntered(target),
               type |-> UserEntered(type),
               timestamp |-> UserEntered(NowISO),
               user |-> UserEntered(Or(UserDisplayText, Or(UserEmail, ""))),
               content |-> UserEntered(content),
               meta |-> UserEntered(meta)])

\* history sheet after logCompanyHistory / logContactHistory
LogHistory(h, target, type, content, meta) ==
    IF Falsy(target) THEN h
    ELSE Append(h, [id |-> UserEntered(HistoryId(h)),
                    target |-> UserEntered(target),
                    type |-> UserEntered(type),
                    timestamp |-> UserEntered(NowISO),
                    user |-> UserEntered(Or(UserDisplayText, Or(UserEmail, ""))),
                    content |-> UserEntered(content),
                    meta |-> UserEntered(meta)])

\* cache after logCompanyHistory / logContactHistory
LogHistoryCache(cs, target, perEntity, dataset) ==
    IF Falsy(target) THEN cs
    ELSE CClear(CClear(cs, perEntity \o target), dataset)

(***************************************************************************)
(* ActivitiesService.  The locals of a method are bound once with          *)
(* \E x \in {e}, in the order the method computes them.                    *)
(***************************************************************************)
\* getActivityType(typeId) is non-null
KnownType(t) == t \in DOMAIN typeMeta

\* the link test written against undefined only: an emptied link passes
LinkErrorsUndefinedOnly(a) ==
    IF a.companyId = Undef /\ a.contactId = Undef
    THEN <<"Aktywnosc musi byc powiazana z firma lub kontaktem">>
    ELSE <<>>

\* !activity.companyId && !activity.contactId
LinkErrors(a) ==
    IF Falsy(a.companyId) /\ Falsy(a.contactId)
    THEN <<"Aktywnosc musi byc powiazana z firma lub kontaktem">>
    ELSE <<>>

\* the type test and the fields the type requires
TypeErrors(a) ==
    IF ~KnownType(a.type)
    THEN <<"Nieprawidlowy typ aktywnosci: " \o a.type>>
    ELSE (IF typeMeta[a.type].requiresTitle /\ Falsy(a.title)
          THEN <<"Tytul jest wymagany">> ELSE <<>>)
         \o (IF typeMeta[a.type].requiresDate /\ Falsy(a.date)
             THEN <<"Data jest wymagana">> ELSE <<>>)

\* activity.date && isNaN(new Date(activity.date).getTime())
DateErrors(a) ==
    IF ~Falsy(a.date) /\ ~DateParses(a.date)
    THEN <<"Nieprawidlowy format daty">>
    ELSE <<>>

\* the checks chained with else: only the first violated rule is reported
validateActivityShortCircuit(a) ==
    IF TypeErrors(a) # <<>> THEN <<Head(TypeErrors(a))>>
    ELSE IF LinkErrors(a) # <<>> THEN LinkErrors(a)
    ELSE DateErrors(a)

\* validateActivity(activity).errors; valid is errors.length === 0
validateActivity(a) == TypeErrors(a) \o LinkErrors(a) \o DateErrors(a)

\* every input counted as valid
ValidAlways(errors) == TRUE

\* valid: errors.length === 0
Valid(errors) == Len(errors) = 0

RECURSIVE Join(_, _)
\* errors.join(sep)
Join(errors, sep) ==
    IF errors = <<>> THEN ""
    ELSE IF Len(errors) = 1 THEN errors[1]
    ELSE errors[1] \o sep \o Join(Tail(errors), sep)

\* the messages of the errors the service throws
ValidationMessage(errors) == Join(errors, ", ")
NotFoundMessage == "Aktywnosc nie znaleziona"

\* an absent id taken for the first activity of a list that has one
FindIndexFirstWhenAbsent(list, id) ==
    IF \E p \in 1 .. Len(list) : list[p].id = id
    THEN (CHOOSE p \in 1 .. Len(list) :
            /\ list[p].id = id
            /\ \A q \in 1 .. p - 1 : list[q].id # id) - 1
    ELSE IF list # <<>> THEN 0 ELSE -1

\* activities.findIndex(a => a.id === activityId), 0-based, -1 when absent
FindIndex(list, id) ==
    IF \E p \in 1 .. Len(list) : list[p].id = id
    THEN (CHOOSE p \in 1 .. Len(list) :
            /\ list[p].id = id
            /\ \A q \in 1 .. p - 1 : list[q].id # id) - 1
    ELSE -1

\* the record createActivity builds from params
NewActivity(params, id) ==
    [id |-> id,
     type |-> params.type,
     title |-> params.title,
     date |-> Or(params.date, NowISO),
     notes |-> Or(params.notes, ""),
     companyId |-> Or(params.companyId, ""),
     contactId |-> Or(params.contactId, ""),
     status |-> Or(params.status, "planned"),
     createdBy |-> Or(UserEmail, ""),
     createdAt |-> NowISO]

\* the updates spread first: the stored record would win over them
MergeStoredWins(old, updates, id) ==
    [f \in Fields |-> IF f = "id" THEN id ELSE old[f]]

\* { ...activities[index], ...updates, id: activityId }
Merge(old, updates, id) ==
    [f \in Fields |->
        IF f = "id" THEN id
        ELSE IF f \in DOMAIN updates THEN updates[f]
        ELSE old[f]]

\* the content and the history rows of logActivityToHistory /
\* logActivityUpdate / logActivityDeletion
HistoryContent(verb, a) ==
    LET typeLabel == IF KnownType(a.type) THEN TypeLabel(a.type) ELSE a.type
    IN CASE verb = "created" -> typeLabel \o ": " \o a.title
         [] verb = "updated" ->
                "Zaktualizowano " \o ToLowerCase(typeLabel) \o ": " \o a.title
         [] verb = "deleted" ->
                "Usunieto " \o ToLowerCase(typeLabel) \o ": " \o a.title

HistoryMeta(verb, a) == "activity_" \o verb \o ":" \o a.id

\* the contact branch chained with else: skipped when a company is linked
LogActivityCompanyElseContact(verb, a) ==
    /\ companyHistory' =
        LogHistory(companyHistory, a.companyId, "event",
                   HistoryContent(verb, a), HistoryMeta(verb, a))
    /\ contactHistory' =
        IF ~Falsy(a.companyId) THEN contactHistory
        ELSE LogHistory(contactHistory, a.contactId, "event",
                        HistoryContent(verb, a), HistoryMeta(verb, a))

LogActivity(verb, a) ==
    /\ companyHistory' =
        LogHistory(companyHistory, a.companyId, "event",
                   HistoryContent(verb, a), HistoryMeta(verb, a))
    /\ contactHistory' =
        LogHistory(contactHistory, a.contactId, "event",
                   HistoryContent(verb, a), HistoryMeta(verb, a))

LogActivityCache(cs, a) ==
    LogHistoryCache(
        LogHistoryCache(cs, a.companyId, "history_company_", "history_companies"),
        a.contactId, "history_contact_", "history_contacts")

NoOp ==
    [op |-> "none", ok |-> FALSE, error |-> "", message |-> "",
     errors |-> <<>>, id |-> "", updates |-> NoUpdates, index |-> -1,
     result |-> BlankRow, loaded |-> <<>>, before |-> <<>>,
     beforeCompany |-> <<>>, beforeContact |-> <<>>, again |-> FALSE,
     pc |-> "idle", steps |-> <<>>, k |-> 0, i |-> 0,
     requests |-> 0]

\* a call of kind op that starts in the current state
Began(op) ==
    [NoOp EXCEPT !.op = op, !.before = sheet,
                 !.beforeCompany = companyHistory,
                 !.beforeContact = contactHistory]

\* throw new Error(message)
Failed(op, id, updates, error, errors, attempted) ==
    [Began(op) EXCEPT !.id = id, !.updates = updates, !.error = error,
                      !.message = IF error = "validation"
                                  THEN ValidationMessage(errors)
                                  ELSE NotFoundMessage,
                      !.errors = errors, !.result = attempted]

CreateActivity(params) ==
    \E errors \in {validateActivity(params)} :
    \E activity \in {NewActivity(params, IdOf(nextId + 1))} :
    \E cs2 \in {LogActivityCache(
                    CClear([c |-> cache, log |-> setLog], "activities"),
                    activity)} :
    /\ IF ~Valid(errors)
       THEN /\ lastOp' = Failed("create", "", NoUpdates, "validation", errors,
                                BlankRow)
            /\ UNCHANGED <<cache, setLog, sheet, companyHistory,
                           contactHistory, nextId>>
       ELSE /\ Len(sheet) < MaxRows
            /\ nextId < MaxIds
            /\ nextId' = nextId + 1
            /\ sheet' = SaveActivitySheet(sheet, activity, -1)
            /\ LogActivity("created", activity)
            /\ cache' = cs2.c
            /\ setLog' = cs2.log
            /\ lastOp' = [Began("create") EXCEPT !.ok = TRUE,
                                                 !.errors = errors,
                                                 !.id = activity.id,
                                                 !.result = activity]
    /\ lastGet' = NoGet
    /\ UNCHANGED <<now, ticks, retry, typeMeta, auxVars>>

UpdateActivity(activityId, updates) ==
    \E activities \in {LoadActivitiesResult(cache, sheet, FALSE, now)} :
    \E cs0 \in {LoadActivitiesCache([c |-> cache, log |-> setLog], sheet,
                                   FALSE, now)} :
    \E index \in {FindIndex(activities, activityId)} :
    \E activity \in {IF index = -1 THEN BlankRow
                     ELSE Merge(activities[index + 1], updates, activityId)} :
    \E errors \in {validateActivity(activity)} :
    \E cs1 \in {LogActivityCache(CClear(cs0, "activities"), activity)} :
    \E again \in {/\ lastOp.op = "update" /\ lastOp.ok
                   /\ lastOp.id = activityId /\ lastOp.updates = updates} :
    /\ IF index = -1
       THEN /\ lastOp' = Failed("update", activityId, updates, "notfound",
                                <<>>, BlankRow)
            /\ cache' = cs0.c
            /\ setLog' = cs0.log
            /\ UNCHANGED <<sheet, companyHistory, contactHistory>>
       ELSE IF ~Valid(errors)
       THEN /\ lastOp' = [Failed("update", activityId, updates, "validation",
                                 errors, activity) EXCEPT !.index = index]
            /\ cache' = cs0.c
            /\ setLog' = cs0.log
            /\ UNCHANGED <<sheet, companyHistory, contactHistory>>
       ELSE /\ sheet' = SaveActivitySheet(sheet, activity, index)
            /\ LogActivity("updated", activity)
            /\ cache' = cs1.c
            /\ setLog' = cs1.log
            /\ lastOp' = [Began("update") EXCEPT !.ok = TRUE,
                                                 !.errors = errors,
                                                 !.id = activityId,
                                                 !.updates = updates,
                                                 !.index = index,
                                                 !.result = activity,
                                                 !.again = again]
    /\ lastGet' = NoGet
    /\ UNCHANGED <<now, ticks, retry, nextId, typeMeta, auxVars>>

\* completeActivity(activityId)
CompleteActivity(activityId) ==
    UpdateActivity(activityId, [status |-> "completed"])

\* cancelActivity(activityId)
CancelActivity(activityId) ==
    UpdateActivity(activityId, [status |-> "cancelled"])

DeleteActivity(activityId) ==
    \E activities \in {LoadActivitiesResult(cache, sheet, FALSE, now)} :
    \E cs0 \in {LoadActivitiesCache([c |-> cache, log |-> setLog], sheet,
                                   FALSE, now)} :
    \E index \in {FindIndex(activities, activityId)} :
    \E activity \in {IF index = -1 THEN BlankRow
                     ELSE activities[index + 1]} :
    \E cs1 \in {LogActivityCache(CClear(cs0, "activities"), activity)} :
    /\ IF index = -1
       THEN /\ lastOp' = Failed("delete", activityId, NoUpdates, "notfound",
                                <<>>, BlankRow)
            /\ cache' = cs0.c
            /\ setLog' = cs0.log
            /\ UNCHANGED <<sheet, companyHistory, contactHistory>>
       ELSE /\ sheet' = DeleteActivitySheet(sheet, index)
            /\ LogActivity("deleted", activity)
            /\ cache' = cs1.c
            /\ setLog' = cs1.log
            /\ lastOp' = [Began("delete") EXCEPT !.ok = TRUE,
                                                 !.id = activityId,
                                                 !.index = index,
                                                 !.result = activity]
    /\ lastGet' = NoGet
    /\ UNCHANGED <<now, ticks, retry, nextId, typeMeta, auxVars>>

\* DataService.loadActivities(useCache) called on its own
LoadActivities(useCache) ==
    \E cs \in {LoadActivitiesCache([c |-> cache, log |-> setLog], sheet,
                                   useCache, now)} :
    /\ lastOp' = [Began("load") EXCEPT
                      !.ok = TRUE,
                      !.loaded = LoadActivitiesResult(cache, sheet,
                                                      useCache, now)]
    /\ cache' = cs.c
    /\ setLog' = cs.log
    /\ lastGet' = NoGet
    /\ UNCHANGED <<now, ticks, retry, sheet, companyHistory, contactHistory,
                   nextId, typeMeta, auxVars>>

(***************************************************************************)
(* createActivity, updateActivity and deleteActivity one awaited request   *)
(* at a time, each request failing or succeeding                           *)
(***************************************************************************)
\* the history appends awaited before the row is written
TaskStepsHistoryFirst(a) ==
    (IF ~Falsy(a.companyId) THEN <<"company">> ELSE <<>>)
        \o (IF ~Falsy(a.contactId) THEN <<"contact">> ELSE <<>>)
        \o <<"write">>

\* the requests a call awaits, in order: saveActivity / deleteActivity, then
\* logCompanyHistory if (activity.companyId), then logContactHistory
\* if (activity.contactId)
TaskSteps(a) ==
    <<"write">>
        \o (IF ~Falsy(a.companyId) THEN <<"company">> ELSE <<>>)
        \o (IF ~Falsy(a.contactId) THEN <<"contact">> ELSE <<>>)

\* the history verb of a call
Verb(op) ==
    CASE op = "create" -> "created"
      [] op = "update" -> "updated"
      [] op = "delete" -> "deleted"

\* a call that has passed its checks and awaits its first request
Running(op, a, index, id, updates, errors) ==
    [Began(op) EXCEPT !.pc = "running", !.steps = TaskSteps(a), !.k = 1,
                      !.i = 0, !.result = a, !.index = index, !.id = id,
                      !.updates = updates, !.errors = errors]

\* the awaited request resolved: the next await, or the call returns
Advance(op) ==
    IF op.k = Len(op.steps)
    THEN [op EXCEPT !.pc = "done", !.ok = TRUE, !.i = 0]
    ELSE [op EXCEPT !.k = @ + 1, !.i = 0]

\* the request the running call awaits
Awaits(step) ==
    /\ lastOp.pc = "running"
    /\ lastOp.steps[lastOp.k] = step

\* createActivity(params) up to await DataService.saveActivity(activity)
CreateActivityStart(params) ==
    \E errors \in {validateActivity(params)} :
    \E activity \in {NewActivity(params, IdOf(nextId + 1))} :
    /\ lastOp.pc # "running"
    /\ IF ~Valid(errors)
       THEN /\ lastOp' = Failed("create", "", NoUpdates, "validation", errors,
                                BlankRow)
            /\ UNCHANGED nextId
       ELSE /\ nextId < MaxCreated
            /\ nextId' = nextId + 1
            /\ lastOp' = Running("create", activity, -1, activity.id,
                                 NoUpdates, errors)
    /\ lastGet' = NoGet
    /\ UNCHANGED <<cache, setLog, sheet, companyHistory, contactHistory, now,
                   ticks, retry, typeMeta, auxVars>>

\* updateActivity(activityId, updates) up to await DataService.saveActivity
UpdateActivityStart(activityId, updates) ==
    \E activities \in {LoadActivitiesResult(cache, sheet, FALSE, now)} :
    \E cs0 \in {LoadActivitiesCache([c |-> cache, log |-> setLog], sheet,
                                   FALSE, now)} :
    \E index \in {FindIndex(activities, activityId)} :
    \E activity \in {IF index = -1 THEN BlankRow
                     ELSE Merge(activities[index + 1], updates, activityId)} :
    \E errors \in {validateActivity(activity)} :
    /\ lastOp.pc # "running"
    /\ lastOp' =
         IF index = -1
         THEN Failed("update", activityId, updates, "notfound", <<>>,
                     BlankRow)
         ELSE IF ~Valid(errors)
         THEN [Failed("update", activityId, updates, "validation", errors,
                      activity) EXCEPT !.index = index]
         ELSE Running("update", activity, index, activityId, updates, errors)
    /\ cache' = cs0.c
    /\ setLog' = cs0.log
    /\ lastGet' = NoGet
    /\ UNCHANGED <<sheet, companyHistory, contactHistory, nextId, now, ticks,
                   retry, typeMeta, auxVars>>

\* deleteActivity(activityId) up to await DataService.deleteActivity(index)
DeleteActivityStart(activityId) ==
    \E activities \in {LoadActivitiesResult(cache, sheet, FALSE, now)} :
    \E cs0 \in {LoadActivitiesCache([c |-> cache, log |-> setLog], sheet,
                                   FALSE, now)} :
    \E index \in {FindIndex(activities, activityId)} :
    /\ lastOp.pc # "running"
    /\ lastOp' =
         IF index = -1
         THEN Failed("delete", activityId, NoUpdates, "notfound", <<>>,
                     BlankRow)
         ELSE Running("delete", activities[index + 1], index, activityId,
                      NoUpdates, <<>>)
    /\ cache' = cs0.c
    /\ setLog' = cs0.log
    /\ lastGet' = NoGet
    /\ UNCHANGED <<sheet, companyHistory, contactHistory, nextId, now, ticks,
                   retry, typeMeta, auxVars>>

\* an attempt of the awaited request throws: retryRequest tries again, or
\* rethrows on the last attempt and the call rejects
RequestFails ==
    /\ lastOp.pc = "running"
    /\ lastOp' =
         IF IsLastAttempt(lastOp.i, MAX_RETRIES)
         THEN [lastOp EXCEPT !.pc = "failed", !.error = "request"]
         ELSE [lastOp EXCEPT !.i = @ + 1]
    /\ UNCHANGED <<cacheVars, retry, sheet, companyHistory, contactHistory,
                   nextId, typeMeta, auxVars>>

\* DataService.saveActivity / DataService.deleteActivity resolves
WriteServed ==
    \E cs \in {CClear([c |-> cache, log |-> setLog], "activities")} :
    /\ Awaits("write")
    /\ sheet' = IF lastOp.op = "delete"
                THEN DeleteActivitySheet(sheet, lastOp.index)
                ELSE SaveActivitySheet(sheet, lastOp.result, lastOp.index)
    /\ cache' = cs.c
    /\ setLog' = cs.log
    /\ lastOp' = Advance(lastOp)
    /\ lastGet' = NoGet
    /\ UNCHANGED <<companyHistory, contactHistory, nextId, now, ticks, retry,
                   typeMeta, auxVars>>

\* DataService.logCompanyHistory resolves
CompanyServed ==
    \E a \in {lastOp.result} :
    \E cs \in {LogHistoryCache([c |-> cache, log |-> setLog], a.companyId,
                               "history_company_", "history_companies")} :
    /\ Awaits("company")
    /\ companyHistory' =
         LogHistory(companyHistory, a.companyId, "event",
                    HistoryContent(Verb(lastOp.op), a),
                    HistoryMeta(Verb(lastOp.op), a))
    /\ cache' = cs.c
    /\ setLog' = cs.log
    /\ lastOp' = Advance(lastOp)
    /\ lastGet' = NoGet
    /\ UNCHANGED <<sheet, contactHistory, nextId, now, ticks, retry, typeMeta,
                   auxVars>>

\* DataService.logContactHistory resolves
ContactServed ==
    \E a \in {lastOp.result} :
    \E cs \in {LogHistoryCache([c |-> cache, log |-> setLog], a.contactId,
                               "history_contact_", "history_contacts")} :
    /\ Awaits("contact")
    /\ contactHistory' =
         LogHistory(contactHistory, a.contactId, "event",
                    HistoryContent(Verb(lastOp.op), a),
                    HistoryMeta(Verb(lastOp.op), a))
    /\ cache' = cs.c
    /\ setLog' = cs.log
    /\ lastOp' = Advance(lastOp)
    /\ lastGet' = NoGet
    /\ UNCHANGED <<sheet, companyHistory, nextId, now, ticks, retry, typeMeta,
                   auxVars>>

(***************************************************************************)
(* logCompanyHistory and logContactHistory called on their own             *)
(***************************************************************************)
\* the values.append requests a call issues: none after the early return
HistoryRequests(target) == IF Falsy(target) THEN 0 ELSE 1

\* logCompanyHistory(companyId, type, content, meta), the append succeeding
\* or failing on every attempt
LogCompanyHistory(companyId, type, content, meta, fails) ==
    \E cs \in {LogHistoryCache([c |-> cache, log |-> setLog], companyId,
                               "history_company_", "history_companies")} :
    \E thrown \in {fails /\ ~Falsy(companyId)} :
    /\ companyHistory' =
         IF thrown THEN companyHistory
         ELSE LogHistory(companyHistory, companyId, type, content, meta)
    /\ cache' = IF thrown THEN cache ELSE cs.c
    /\ setLog' = IF thrown THEN setLog ELSE cs.log
    /\ lastOp' = [Began("logCompanyHistory") EXCEPT
                      !.ok = ~thrown,
                      !.error = IF thrown THEN "request" ELSE "",
                      !.id = companyId,
                      !.requests = HistoryRequests(companyId)]
    /\ lastGet' = NoGet
    /\ UNCHANGED <<sheet, contactHistory, nextId, now, ticks, retry, typeMeta,
                   auxVars>>

\* logContactHistory(contactId, type, content, meta), the append succeeding
\* or failing on every attempt
LogContactHistory(contactId, type, content, meta, fails) ==
    \E cs \in {LogHistoryCache([c |-> cache, log |-> setLog], contactId,
                               "history_contact_", "history_contacts")} :
    \E thrown \in {fails /\ ~Falsy(contactId)} :
    /\ contactHistory' =
         IF thrown THEN contactHistory
         ELSE LogHistory(contactHistory, contactId, type, content, meta)
    /\ cache' = IF thrown THEN cache ELSE cs.c
    /\ setLog' = IF thrown THEN setLog ELSE cs.log
    /\ lastOp' = [Began("logContactHistory") EXCEPT
                      !.ok = ~thrown,
                      !.error = IF thrown THEN "request" ELSE "",
                      !.id = contactId,
                      !.requests = HistoryRequests(contactId)]
    /\ lastGet' = NoGet
    /\ UNCHANGED <<sheet, companyHistory, nextId, now, ticks, retry, typeMeta,
                   auxVars>>

(***************************************************************************)
(* The other sheets, and one DataService call at a time                    *)
(***************************************************************************)
SheetNames == {"UserPreferences", "Firmy", "Kontakty", "CompanyTagRelations",
               "ContactTagRelations"}
NoSheets == [n \in SheetNames |-> <<>>]

\* JavaScript null as the result of a call
Null == [null |-> TRUE]

\* io.attempts lists the outcome of each remote call of the call, in order;
\* io.cacheBefore is the cache entry of io.key when the call began, if any;
\* io.prev describes the call before it and io.n counts the calls
NoIo ==
    [op |-> "none", arg |-> "", useCache |-> FALSE, key |-> "", n |-> 0,
     state |-> "none", source |-> "none", attempts |-> <<>>,
     result |-> Null, cacheBefore |-> <<>>,
     prev |-> [op |-> "none", arg |-> "", degraded |-> FALSE,
               useCache |-> FALSE]]

\* the four loads of loadAllData, in the order of the Promise.all array
BatchReads == {"companies", "contacts", "companyHistory", "contactHistory"}

NoBatch ==
    [state |-> "none", reads |-> [r \in BatchReads |-> RetryIdle],
     values |-> [r \in {} |-> <<>>], result |-> [r \in {} |-> <<>>],
     error |-> ""]

\* the loads of DataService the model runs with a remote read that may fail
LoadOps == {"loadActivities", "loadUserPreferences", "loadCompanies"}

\* the sheet, the dataset-wide cache key and the per-entity cache key of
\* the tag relations of companies and of contacts
TagSheet(kind) ==
    IF kind = "company" THEN "CompanyTagRelations" ELSE "ContactTagRelations"
TagAllKey(kind) ==
    IF kind = "company" THEN "company_tag_relations"
    ELSE "contact_tag_relations"
TagEntityKey(kind, entityId) ==
    IF kind = "company" THEN "company_tags_" \o entityId
    ELSE "contact_tags_" \o entityId
TagKind(op) == IF op = "loadCompanyTagRelations" THEN "company" ELSE "contact"

\* the cache key of a load
LoadKey(op, arg) ==
    CASE op = "loadActivities" -> "activities"
      [] op = "loadUserPreferences" -> "user_prefs_" \o arg
      [] op = "loadCompanies" -> "companies"
      [] op \in {"loadCompanyTagRelations", "loadContactTagRelations"} ->
            IF Falsy(arg) THEN TagAllKey(TagKind(op))
            ELSE TagEntityKey(TagKind(op), arg)

\* loadCompanyTagRelations / loadContactTagRelations: rows.map(...), the
\* filter on both ids and the filter on the entity when one is given
RelationsOf(rows, entityId) ==
    LET all == [p \in 1 .. Len(rows) |->
                   [id |-> Or(rows[p].id, ""),
                    entityId |-> Or(rows[p].entityId, ""),
                    tagId |-> Or(rows[p].tagId, ""),
                    assignedBy |-> Or(rows[p].assignedBy, ""),
                    assignedAt |-> Or(rows[p].assignedAt, "")]]
        Linked(r) == ~Falsy(r.entityId) /\ ~Falsy(r.tagId)
        Mine(r) == r.entityId = entityId
    IN IF Falsy(entityId) THEN SelectSeq(all, Linked)
       ELSE SelectSeq(SelectSeq(all, Linked), Mine)

\* row[0].toLowerCase() and email.toLowerCase() on the emails of the model
EmailToLowerCase(e) == IF e = "User@crm.pl" THEN "user@crm.pl" ELSE e

\* loadUserPreferences: rows.find(...) and the prefs object, or null
PrefsOf(rows, email) ==
    LET Mine(row) == /\ ~Falsy(row.email)
                     /\ EmailToLowerCase(row.email) = EmailToLowerCase(email)
        found == SelectSeq(rows, Mine)
    IN IF found = <<>> THEN Null
       ELSE [email |-> Or(found[1].email, ""),
             displayName |-> Or(found[1].displayName, ""),
             createdAt |-> Or(found[1].createdAt, ""),
             updatedAt |-> Or(found[1].updatedAt, "")]

\* loadCompanies: rows.map(...).filter(c => c.name)
CompaniesOf(rows) ==
    LET all == [p \in 1 .. Len(rows) |->
                   [id |-> Or(rows[p].id, IdOf(p)),
                    name |-> Or(rows[p].name, "")]]
        HasName(c) == ~Falsy(c.name)
    IN SelectSeq(all, HasName)

\* what the fn of a load computes from a successful remote read
LoadValue(op, arg) ==
    CASE op = "loadActivities" -> MapRows(SheetGet(sheet))
      [] op = "loadUserPreferences" -> PrefsOf(remote["UserPreferences"], arg)
      [] op = "loadCompanies" -> CompaniesOf(remote["Firmy"])
      [] op \in {"loadCompanyTagRelations", "loadContactTagRelations"} ->
            RelationsOf(remote[TagSheet(TagKind(op))], arg)

\* the fn of the load wraps its remote read in try / catch
CatchesLocally(op) == op \in {"loadActivities", "loadUserPreferences"}

\* what the catch block returns: [] or null
DegradedResult(op) == IF op = "loadActivities" THEN <<>> ELSE Null

\* the catch block storing what it returns
CacheAfterFailedReadStoring(cs, key, value, t) == CSet(cs, key, value, t)

\* the catch block of loadActivities / loadUserPreferences: no setCache
CacheAfterFailedRead(cs, key, value, t) == cs

RECURSIVE TrimRows(_)
\* trailing empty rows are not part of the data of a sheet
TrimRows(rows) ==
    IF rows # <<>> /\ \A f \in DOMAIN rows[Len(rows)] : rows[Len(rows)][f] = ""
    THEN TrimRows(SubSeq(rows, 1, Len(rows) - 1))
    ELSE rows

\* values.append with USER_ENTERED on a sheet other than Activities
AppendRow(rows, row) ==
    Append(rows, [f \in DOMAIN row |-> UserEntered(row[f])])

\* values.clear of row n on a sheet other than Activities
ClearRow(rows, n) ==
    IF n - 1 \in 1 .. Len(rows)
    THEN TrimRows([rows EXCEPT ![n - 1] = [f \in DOMAIN @ |-> ""]])
    ELSE rows

\* a write of DataService that has returned
Wrote(op, arg) ==
    [NoIo EXCEPT !.op = op, !.arg = arg, !.state = "returned", !.n = io.n]

\* assignTagToCompany(companyId, tagId) / assignTagToContact(contactId,
\* tagId): the relation is appended and both cache keys are cleared
AssignTag(kind, entityId, tagId) ==
    \E cs \in {CClear(CClear([c |-> cache, log |-> setLog],
                              TagEntityKey(kind, entityId)),
                       TagAllKey(kind))} :
    /\ io.state # "running"
    /\ Len(remote[TagSheet(kind)]) < MaxSheetRows
    /\ nextId < MaxIds
    /\ remote' = [remote EXCEPT
                     ![TagSheet(kind)] =
                         AppendRow(@, [id |-> IdOf(nextId + 1),
                                       entityId |-> entityId,
                                       tagId |-> tagId,
                                       assignedBy |-> Or(UserEmail, ""),
                                       assignedAt |-> NowISO])]
    /\ nextId' = nextId + 1
    /\ cache' = cs.c
    /\ setLog' = cs.log
    /\ io' = Wrote("assignTag", entityId)
    /\ lastGet' = NoGet
    /\ UNCHANGED <<now, ticks, retry, sheet, companyHistory, contactHistory,
                   typeMeta, lastOp, call, batch,
                   moreVars>>

\* removeTagFromCompany(relationId, rowIndex) / removeTagFromContact(
\* relationId, rowIndex): the row is cleared and the dataset-wide cache key
\* is cleared
RemoveTag(kind, relationId, rowIndex) ==
    \E cs \in {CClear([c |-> cache, log |-> setLog], TagAllKey(kind))} :
    /\ io.state # "running"
    /\ remote' = [remote EXCEPT
                     ![TagSheet(kind)] = ClearRow(@, RowNumber(rowIndex))]
    /\ cache' = cs.c
    /\ setLog' = cs.log
    /\ io' = Wrote("removeTag", relationId)
    /\ lastGet' = NoGet
    /\ UNCHANGED <<now, ticks, retry, storeVars, call, batch,
                   moreVars>>

\* the values row of saveCompany
CompanyToRow(company, id) ==
    [id |-> Or(company.id, id), name |-> Or(company.name, "")]

\* saveCompany(company, rowIndex); rowIndex = -1 stands for null
SaveCompany(company, rowIndex) ==
    \E cs \in {CClear([c |-> cache, log |-> setLog], "companies")} :
    /\ io.state # "running"
    /\ rowIndex = -1 => Len(remote["Firmy"]) < MaxSheetRows
    /\ Falsy(company.id) => nextId < MaxIds
    /\ remote' = [remote EXCEPT
                     !["Firmy"] =
                         IF rowIndex # -1
                         THEN [@ EXCEPT ![RowNumber(rowIndex) - 1] =
                                  [f \in DOMAIN @ |->
                                      UserEntered(
                                          CompanyToRow(company,
                                                       IdOf(nextId + 1))[f])]]
                         ELSE AppendRow(@, CompanyToRow(company,
                                                         IdOf(nextId + 1)))]
    /\ nextId' = IF Falsy(company.id) THEN nextId + 1 ELSE nextId
    /\ cache' = cs.c
    /\ setLog' = cs.log
    /\ io' = Wrote("saveCompany", company.name)
    /\ lastGet' = NoGet
    /\ UNCHANGED <<now, ticks, retry, sheet, companyHistory, contactHistory,
                   typeMeta, lastOp, call, batch,
                   moreVars>>

\* deleteCompany(rowIndex)
DeleteCompany(rowIndex) ==
    \E cs \in {CClear([c |-> cache, log |-> setLog], "companies")} :
    /\ io.state # "running"
    /\ remote' = [remote EXCEPT !["Firmy"] = ClearRow(@, RowNumber(rowIndex))]
    /\ cache' = cs.c
    /\ setLog' = cs.log
    /\ io' = Wrote("deleteCompany", "")
    /\ lastGet' = NoGet
    /\ UNCHANGED <<now, ticks, retry, storeVars, call, batch,
                   moreVars>>

\* loadContacts: rows.map(...).filter(c => c.name)
ContactsOf(rows) ==
    LET all == [p \in 1 .. Len(rows) |->
                   [id |-> Or(rows[p].id, IdOf(p)),
                    companyId |-> Or(rows[p].companyId, ""),
                    name |-> Or(rows[p].name, "")]]
        HasName(c) == ~Falsy(c.name)
    IN SelectSeq(all, HasName)

\* loadCompanyHistory() / loadContactHistory(): rows.map(...).filter on the
\* target id
HistoryOf(rows) ==
    LET all == [p \in 1 .. Len(rows) |->
                   [id |-> Or(rows[p].id, ""),
                    target |-> Or(rows[p].target, ""),
                    type |-> Or(rows[p].type, "event"),
                    timestamp |-> Or(rows[p].timestamp, ""),
                    user |-> Or(rows[p].user, ""),
                    content |-> Or(rows[p].content, ""),
                    meta |-> Or(rows[p].meta, "")]]
        HasTarget(h) == ~Falsy(h.target)
    IN SelectSeq(all, HasTarget)

\* the cache key of each load of loadAllData
BatchKey(r) ==
    CASE r = "companies" -> "companies"
      [] r = "contacts" -> "contacts"
      [] r = "companyHistory" -> "history_companies"
      [] r = "contactHistory" -> "history_contacts"

\* what the fn of each load computes from a successful remote read
BatchValue(r) ==
    CASE r = "companies" -> CompaniesOf(remote["Firmy"])
      [] r = "contacts" -> ContactsOf(remote["Kontakty"])
      [] r = "companyHistory" -> HistoryOf(companyHistory)
      [] r = "contactHistory" -> HistoryOf(contactHistory)

Resolved(run) == run.pc = "done" /\ run.outcome.kind = "value"
Rejected(run) == run.pc = "done" /\ run.outcome.kind = "error"

\* a join that waits for every load and resolves with what there is
PromiseAllSettled(b, reads, values) ==
    IF b.state # "pending" THEN b
    ELSE IF \A r \in BatchReads : reads[r].pc = "done"
    THEN [b EXCEPT !.state = "resolved", !.reads = reads, !.values = values,
                   !.result = values]
    ELSE [b EXCEPT !.reads = reads, !.values = values]

\* await Promise.all([...]) and the return of loadAllData, seen right after
\* one of the loads has settled: the first rejection rejects the batch, the
\* last resolution resolves it
PromiseAll(b, reads, values) ==
    IF b.state # "pending" THEN [b EXCEPT !.reads = reads, !.values = values]
    ELSE IF \E r \in BatchReads : Rejected(reads[r])
    THEN [b EXCEPT !.state = "rejected", !.reads = reads, !.values = values,
                   !.error = LET r == CHOOSE r \in BatchReads :
                                            Rejected(reads[r])
                             IN reads[r].outcome.val]
    ELSE IF \A r \in BatchReads : Resolved(reads[r])
    THEN [b EXCEPT !.state = "resolved", !.reads = reads, !.values = values,
                   !.result = values]
    ELSE [b EXCEPT !.reads = reads, !.values = values]

\* loadAllData(): the four loads are called one after the other, each up to
\* its cache hit or its remote read, before any response is handled
LoadAllData ==
    \E hits \in {{r \in BatchReads :
                     GetCacheResult(cache, BatchKey(r), now).hit}} :
    \E reads \in {[r \in BatchReads |->
                      IF r \in hits
                      THEN [RetryIdle EXCEPT
                               !.pc = "done",
                               !.outcome = [kind |-> "value",
                                            val |-> "cached"]]
                      ELSE LoopEnter([RetryIdle EXCEPT
                                         !.max = MAX_RETRIES])]} :
    \E values \in {[r \in hits |->
                       GetCacheResult(cache, BatchKey(r), now).value]} :
    /\ batch.state = "none"
    /\ batch' = PromiseAll([NoBatch EXCEPT !.state = "pending"], reads,
                           values)
    /\ cache' = [k \in {k \in DOMAIN cache : ~Expired(cache[k], now)} |->
                    cache[k]]
    /\ lastGet' = NoGet
    /\ UNCHANGED <<now, ticks, setLog, retry, storeVars, call, remote, io,
                   moreVars>>

\* the remote read of load r succeeds: rows mapped, cached and returned
BatchReadReturns(r) ==
    \E value \in {BatchValue(r)} :
    \E cs \in {CSet([c |-> cache, log |-> setLog], BatchKey(r), value,
                     now)} :
    /\ batch.state # "none"
    /\ batch.reads[r].pc = "call"
    /\ batch' = PromiseAll(batch,
                           [batch.reads EXCEPT
                               ![r] = Returned(batch.reads[r], "loaded")],
                           MapSet(batch.values, r, value))
    /\ cache' = cs.c
    /\ setLog' = cs.log
    /\ lastGet' = NoGet
    /\ UNCHANGED <<now, ticks, retry, storeVars, call, remote, io,
                   moreVars>>

\* the remote read of load r fails with e
BatchReadFails(r, e) ==
    /\ batch.state # "none"
    /\ batch.reads[r].pc = "call"
    /\ batch' = PromiseAll(batch,
                           [batch.reads EXCEPT
                               ![r] = Thrown(batch.reads[r], e)],
                           batch.values)
    /\ UNCHANGED <<cacheVars, retry, storeVars, call, remote, io,
                   moreVars>>

\* the backoff timer of load r fires
BatchTimerFires(r) ==
    /\ batch.state # "none"
    /\ batch.reads[r].pc = "wait"
    /\ batch' = [batch EXCEPT !.reads[r] = TimerFired(batch.reads[r])]
    /\ UNCHANGED <<cacheVars, retry, storeVars, call, remote, io,
                   moreVars>>

\* a load is called: the email test of loadUserPreferences, the cache
\* lookup, and the first pass through the loop of retryRequest up to the
\* remote read
LoadStart(op, arg, useCache) ==
    \E key \in {LoadKey(op, arg)} :
    \E got \in {GetCacheResult(cache, key, now)} :
    \E began \in {[NoIo EXCEPT
                      !.op = op, !.arg = arg, !.useCache = useCache,
                      !.key = key, !.n = io.n + 1,
                      !.cacheBefore = IF key \in DOMAIN cache
                                      THEN <<cache[key]>> ELSE <<>>,
                      !.prev = [op |-> io.op, arg |-> io.arg,
                                useCache |-> io.useCache,
                                degraded |->
                                    /\ io.state = "returned"
                                    /\ io.attempts # <<>>
                                    /\ io.attempts[Len(io.attempts)]
                                           = "failed"]]} :
    /\ io.state # "running"
    /\ io.n < MaxCalls
    /\ retry.pc \in {"idle", "done"}
    /\ IF op = "loadUserPreferences" /\ Falsy(arg)
       THEN /\ io' = [began EXCEPT !.state = "returned"]
            /\ retry' = RetryIdle
            /\ UNCHANGED cache
       ELSE IF useCache /\ got.hit
       THEN /\ io' = [began EXCEPT !.state = "returned", !.source = "cache",
                                   !.result = got.value]
            /\ retry' = RetryIdle
            /\ UNCHANGED cache
       ELSE /\ io' = [began EXCEPT !.state = "running", !.source = "remote"]
            /\ retry' = LoopEnter([RetryIdle EXCEPT !.max = MAX_RETRIES])
            /\ cache' = IF useCache THEN CacheAfterGet(cache, key, now)
                        ELSE cache
    /\ lastGet' = NoGet
    /\ UNCHANGED <<now, ticks, setLog, storeVars, call, remote, batch,
                   moreVars>>

\* the remote read of the load in progress succeeds: the rows are mapped,
\* cached (a null result of loadUserPreferences is not) and returned
RemoteReadReturns ==
    /\ io.state = "running"
    /\ retry.pc = "call"
    /\ \E value \in {LoadValue(io.op, io.arg)} :
       \E cs \in {IF io.op = "loadUserPreferences" /\ value = Null
                   THEN [c |-> cache, log |-> setLog]
                   ELSE CSet([c |-> cache, log |-> setLog], io.key, value,
                             now)} :
          /\ retry' = Returned(retry, "loaded")
          /\ io' = [io EXCEPT !.state = "returned",
                              !.attempts = Append(@, "ok"),
                              !.result = value]
          /\ cache' = cs.c
          /\ setLog' = cs.log
    /\ lastGet' = NoGet
    /\ UNCHANGED <<now, ticks, storeVars, call, remote, batch,
                   moreVars>>

\* the remote read of the load in progress fails with e: the catch block of
\* the fn returns the empty result, or fn throws into retryRequest
RemoteReadFails(e) ==
    \E cs \in {CacheAfterFailedRead([c |-> cache, log |-> setLog], io.key,
                                     DegradedResult(io.op), now)} :
    /\ io.state = "running"
    /\ retry.pc = "call"
    /\ IF CatchesLocally(io.op)
       THEN /\ retry' = Returned(retry, "caught")
            /\ io' = [io EXCEPT !.state = "returned",
                                !.attempts = Append(@, "failed"),
                                !.result = DegradedResult(io.op)]
            /\ cache' = cs.c
            /\ setLog' = cs.log
       ELSE /\ retry' = Thrown(retry, e)
            /\ io' = [io EXCEPT !.state = IF Thrown(retry, e).pc = "done"
                                          THEN "failed" ELSE "running",
                                !.attempts = Append(@, "failed")]
            /\ UNCHANGED <<cache, setLog>>
    /\ lastGet' = NoGet
    /\ UNCHANGED <<now, ticks, storeVars, call, remote, batch,
                   moreVars>>

(***************************************************************************)
(* The synchronous helpers of ActivitiesService, called on their own       *)
(***************************************************************************)
NoFilters == [f \in {} |-> ""]
\* call.activities is the list the helper is given, call.after that list
\* once the helper has returned, call.previous the call before this one
NoCall ==
    [fn |-> "none", activity |-> BlankRow, activities |-> <<>>,
     filters |-> NoFilters, errors |-> <<>>, valid |-> FALSE, out |-> <<>>,
     after |-> <<>>,
     previous |-> [fn |-> "none", filters |-> NoFilters, out |-> <<>>],
     stats |-> [total |-> 0]]

\* validateActivity(activity) returning { valid, errors }
ValidateActivity ==
    /\ call' = [call EXCEPT !.fn = "validateActivity",
                            !.errors = validateActivity(call.activity),
                            !.valid = Valid(validateActivity(call.activity))]
    /\ UNCHANGED <<cacheVars, retry, storeVars, remote, io, batch,
                   moreVars>>

(***************************************************************************)
(* The date queries and applyFilters                                       *)
(***************************************************************************)
\* the position of a date string of the model in the order of the
\* JavaScript string comparison a.date >= today (UTF-16 code units)
DateRank(d) ==
    CASE d = "" -> 0
      [] d = "2024-01-15" -> 1
      [] d = "2024-02-20" -> 2
      [] d = "2024-03-01" -> 3
      [] d = "2024-03-01T12:00:00.000Z" -> 4
      [] d = "2024-03-02" -> 5
      [] OTHER -> 6

\* a.localeCompare(b) on the date strings of the model: negative, zero or
\* positive
LocaleCompare(a, b) ==
    IF DateRank(a) < DateRank(b) THEN -1
    ELSE IF DateRank(a) > DateRank(b) THEN 1
    ELSE 0

\* new Date().toISOString().split('T')[0]
Today == IF NowISO = "2024-03-01T12:00:00.000Z" THEN "2024-03-01" ELSE NowISO

\* the comparator of the sorts: ascending (a, b) => a.date.localeCompare(
\* b.date), descending (a, b) => b.date.localeCompare(a.date)
CompareDates(a, b, dir) ==
    IF dir = "asc" THEN LocaleCompare(a.date, b.date)
    ELSE LocaleCompare(b.date, a.date)

RECURSIVE InsertByDate(_, _, _)
InsertByDate(x, sorted, dir) ==
    IF sorted = <<>> THEN <<x>>
    ELSE IF CompareDates(Head(sorted), x, dir) <= 0
    THEN <<Head(sorted)>> \o InsertByDate(x, Tail(sorted), dir)
    ELSE <<x>> \o sorted

RECURSIVE SortByDate(_, _)
\* Array.prototype.sort with the comparator above (a stable sort)
SortByDate(list, dir) ==
    IF list = <<>> THEN <<>>
    ELSE InsertByDate(list[Len(list)],
                      SortByDate(SubSeq(list, 1, Len(list) - 1), dir), dir)

\* the date test written with > : an activity dated today is left out
IsUpcomingStrict(a) ==
    a.status = "planned" /\ DateRank(a.date) > DateRank(Today)

\* a.status === PLANNED && a.date >= today
IsUpcoming(a) == a.status = "planned" /\ DateRank(a.date) >= DateRank(Today)

\* a.status === PLANNED && a.date < today
IsOverdue(a) == a.status = "planned" /\ DateRank(a.date) < DateRank(Today)

\* the result of getUpcomingActivities(companyId, contactId) on the loaded
\* activities
UpcomingOf(activities, companyId, contactId) ==
    LET OfCompany(a) == a.companyId = companyId
        OfContact(a) == a.contactId = contactId
        f0 == SelectSeq(activities, IsUpcoming)
        f1 == IF ~Falsy(companyId) THEN SelectSeq(f0, OfCompany) ELSE f0
        f2 == IF ~Falsy(contactId) THEN SelectSeq(f1, OfContact) ELSE f1
    IN SortByDate(f2, "asc")

\* the result of getOverdueActivities() on the loaded activities
OverdueOf(activities) == SortByDate(SelectSeq(activities, IsOverdue), "asc")

\* an array of the helper: its items and whether it is the very array the
\* caller passed in
\* filtered = activities: no copy is made
NoCopy(activities) == [items |-> activities, alias |-> TRUE]

\* [...activities]
SpreadCopy(activities) == [items |-> activities, alias |-> FALSE]

\* applyFilters(activities, filters): out is the array returned and input
\* the array passed in, as it is after the call
applyFilters(activities, filters) ==
    LET Get(f) == IF f \in DOMAIN filters THEN filters[f] ELSE Undef
        OfType(a) == a.type = Get("type")
        OfStatus(a) == a.status = Get("status")
        From(a) == DateRank(a.date) >= DateRank(Get("dateFrom"))
        To(a) == DateRank(a.date) <= DateRank(Get("dateTo"))
        Filter(arr, Keep(_)) ==
            [items |-> SelectSeq(arr.items, Keep), alias |-> FALSE]
        f0 == SpreadCopy(activities)
        f1 == IF ~Falsy(Get("type")) THEN Filter(f0, OfType) ELSE f0
        f2 == IF ~Falsy(Get("status")) THEN Filter(f1, OfStatus) ELSE f1
        f3 == IF ~Falsy(Get("dateFrom")) THEN Filter(f2, From) ELSE f2
        f4 == IF ~Falsy(Get("dateTo")) THEN Filter(f3, To) ELSE f3
        sorted == SortByDate(f4.items, "desc")
    IN [out |-> sorted,
        input |-> IF f4.alias THEN sorted ELSE activities]

\* the call before getOverdueActivities, kept when it was
\* getUpcomingActivities
Previous ==
    IF call.fn = "getUpcomingActivities"
    THEN [fn |-> call.fn, filters |-> call.filters, out |-> call.out]
    ELSE NoCall.previous

\* getUpcomingActivities(companyId, contactId)
GetUpcomingActivities(companyId, contactId) ==
    \E activities \in {LoadActivitiesResult(cache, sheet, TRUE, now)} :
    \E cs \in {LoadActivitiesCache([c |-> cache, log |-> setLog], sheet,
                                   TRUE, now)} :
    /\ call' = [NoCall EXCEPT
                   !.fn = "getUpcomingActivities",
                   !.activities = activities,
                   !.filters = [companyId |-> companyId,
                                contactId |-> contactId],
                   !.out = UpcomingOf(activities, companyId, contactId),
                   !.after = activities]
    /\ cache' = cs.c
    /\ setLog' = cs.log
    /\ lastGet' = NoGet
    /\ UNCHANGED <<now, ticks, retry, storeVars, remote, io, batch,
                   moreVars>>

\* getOverdueActivities()
GetOverdueActivities ==
    \E activities \in {LoadActivitiesResult(cache, sheet, TRUE, now)} :
    \E cs \in {LoadActivitiesCache([c |-> cache, log |-> setLog], sheet,
                                   TRUE, now)} :
    /\ call' = [NoCall EXCEPT
                   !.fn = "getOverdueActivities",
                   !.activities = activities,
                   !.out = OverdueOf(activities),
                   !.after = activities,
                   !.previous = Previous]
    /\ cache' = cs.c
    /\ setLog' = cs.log
    /\ lastGet' = NoGet
    /\ UNCHANGED <<now, ticks, retry, storeVars, remote, io, batch,
                   moreVars>>

\* getCompanyActivities(companyId, filters): call.activities is the list
\* handed to applyFilters
GetCompanyActivities(companyId, filters) ==
    \E activities \in {LoadActivitiesResult(cache, sheet, TRUE, now)} :
    \E cs \in {LoadActivitiesCache([c |-> cache, log |-> setLog], sheet,
                                   TRUE, now)} :
    \E filtered \in {LET OfCompany(a) == a.companyId = companyId
                      IN SelectSeq(activities, OfCompany)} :
    \E applied \in {applyFilters(filtered, filters)} :
    /\ call' = [NoCall EXCEPT
                   !.fn = "applyFilters",
                   !.activities = filtered,
                   !.filters = filters,
                   !.out = applied.out,
                   !.after = applied.input]
    /\ cache' = cs.c
    /\ setLog' = cs.log
    /\ lastGet' = NoGet
    /\ UNCHANGED <<now, ticks, retry, storeVars, remote, io, batch,
                   moreVars>>

\* one turn of the forEach with the planned test left out: every activity
\* counts as upcoming or overdue
StatsStepAnyStatus(stats, activity) ==
    [stats EXCEPT
       !.byType =
           [t \in DOMAIN stats.byType \cup {activity.type} |->
               IF t = activity.type
               THEN (IF t \in DOMAIN stats.byType THEN stats.byType[t] ELSE 0)
                    + 1
               ELSE stats.byType[t]],
       !.byStatus =
           IF activity.status \in DOMAIN stats.byStatus
           THEN [stats.byStatus EXCEPT ![activity.status] = @ + 1]
           ELSE stats.byStatus,
       !.upcoming =
           IF DateRank(activity.date) >= DateRank(Today) THEN @ + 1 ELSE @,
       !.overdue =
           IF ~(DateRank(activity.date) >= DateRank(Today)) THEN @ + 1 ELSE @]

\* one turn of filtered.forEach(activity => ...) in getActivityStats
StatsStep(stats, activity) ==
    [stats EXCEPT
       !.byType =
           [t \in DOMAIN stats.byType \cup {activity.type} |->
               IF t = activity.type
               THEN (IF t \in DOMAIN stats.byType THEN stats.byType[t] ELSE 0)
                    + 1
               ELSE stats.byType[t]],
       !.byStatus =
           IF activity.status \in DOMAIN stats.byStatus
           THEN [stats.byStatus EXCEPT ![activity.status] = @ + 1]
           ELSE stats.byStatus,
       !.upcoming =
           IF /\ activity.status = "planned"
              /\ DateRank(activity.date) >= DateRank(Today)
           THEN @ + 1 ELSE @,
       !.overdue =
           IF /\ activity.status = "planned"
              /\ ~(DateRank(activity.date) >= DateRank(Today))
           THEN @ + 1 ELSE @]

RECURSIVE ForEachStats(_, _)
ForEachStats(stats, list) ==
    IF list = <<>> THEN stats
    ELSE ForEachStats(StatsStep(stats, Head(list)), Tail(list))

\* the object getActivityStats(companyId, contactId) returns on the loaded
\* activities
getActivityStats(activities, companyId, contactId) ==
    LET OfCompany(a) == a.companyId = companyId
        OfContact(a) == a.contactId = contactId
        f1 == IF ~Falsy(companyId) THEN SelectSeq(activities, OfCompany)
              ELSE activities
        f2 == IF ~Falsy(contactId) THEN SelectSeq(f1, OfContact) ELSE f1
    IN ForEachStats([total |-> Len(f2),
                     byType |-> [t \in {} |-> 0],
                     byStatus |-> [planned |-> 0, completed |-> 0,
                                   cancelled |-> 0],
                     upcoming |-> 0,
                     overdue |-> 0], f2)

\* getActivityStats(companyId, contactId)
GetActivityStats(companyId, contactId) ==
    \E activities \in {LoadActivitiesResult(cache, sheet, TRUE, now)} :
    \E cs \in {LoadActivitiesCache([c |-> cache, log |-> setLog], sheet,
                                   TRUE, now)} :
    /\ call' = [NoCall EXCEPT
                   !.fn = "getActivityStats",
                   !.activities = activities,
                   !.filters = [companyId |-> companyId,
                                contactId |-> contactId],
                   !.after = activities,
                   !.stats = getActivityStats(activities, companyId,
                                              contactId)]
    /\ cache' = cs.c
    /\ setLog' = cs.log
    /\ lastGet' = NoGet
    /\ UNCHANGED <<now, ticks, retry, storeVars, remote, io, batch,
                   moreVars>>

(***************************************************************************)
(* Inputs of the activity operations                                       *)
(***************************************************************************)
Params(type, title, date, notes, companyId, contactId, status) ==
    [type |-> type, title |-> title, date |-> date, notes |-> notes,
     companyId |-> companyId, contactId |-> contactId, status |-> status]

CreateInputs ==
    {Params("EMAIL", "Oferta", "2024-01-15", Undef, "c1", Undef, Undef),
     Params("TASK", "=1+1", "2024-02-20", "pilne", Undef, "k1", "completed"),
     Params("EMAIL", Undef, Undef, Undef, "c1", "k1", Undef),
     Params("FAX", "", "jutro", Undef, Undef, Undef, Undef)}

DeepCreateInputs ==
    {Params("EMAIL", "Oferta", "2024-01-15", Undef, "c1", Undef, Undef),
     Params("TASK", "=1+1", "2024-02-20", "pilne", Undef, "k1", "completed")}

UpdateInputs ==
    {[companyId |-> "", contactId |-> ""],
     [id |-> "id_9", title |-> "Nowy", status |-> "planned"]}

\* an activity linked to a company and a contact, and one that fails
\* validation
PartialInputs ==
    {Params("EMAIL", "Oferta", "2024-01-15", Undef, "c1", "k1", Undef),
     Params("FAX", "", "jutro", Undef, Undef, Undef, Undef)}

\* the ids handed out so far and one id that no activity ever carried
ActivityIds == {IdOf(n) : n \in 0 .. nextId}

\* the metadata the activity runs start from
ActivityMetaChoices ==
    {m \in MetaChoices :
        \A t \in TypeIds : m[t].requiresTitle = m[t].requiresDate}

\* the calls and the sheets of the runs with failing remote reads
RemoteErrors == {"e1"}
LoadArgs(op) ==
    IF op = "loadUserPreferences" THEN {"", "user@crm.pl", "ola@crm.pl"}
    ELSE {""}
StoredActivity ==
    [BlankRow EXCEPT !.id = "id_1", !.type = "EMAIL", !.title = "Oferta",
                     !.date = "2024-01-15", !.companyId = "c1",
                     !.status = "planned", !.createdBy = UserEmail,
                     !.createdAt = NowISO]
RemoteSheets ==
    [NoSheets EXCEPT
        !["UserPreferences"] =
            <<[email |-> "User@crm.pl", displayName |-> "Jan",
               createdAt |-> NowISO, updatedAt |-> NowISO]>>,
        !["Firmy"] = <<[id |-> "c1", name |-> "Acme"],
                       [id |-> "", name |-> ""],
                       [id |-> "c2", name |-> "Bolt"]>>,
        !["Kontakty"] = <<[id |-> "k1", companyId |-> "c1",
                           name |-> "Ola"]>>]
StoredHistory(target) ==
    <<[id |-> "h_1", target |-> target, type |-> "event",
       timestamp |-> NowISO, user |-> UserDisplayText,
       content |-> "Email: Oferta", meta |-> "activity_created:id_1"]>>

\* the loads, entities and rows of the runs with tag relations and companies
TagLoadOps == {"loadCompanyTagRelations", "loadContactTagRelations",
               "loadCompanies"}
TagLoadArgs(op) ==
    CASE op = "loadCompanyTagRelations" -> {"", "c1"}
      [] op = "loadContactTagRelations" -> {"", "k1"}
      [] op = "loadCompanies" -> {""}
TagEntities(kind) == IF kind = "company" THEN {"c1"} ELSE {"k1"}
\* the positions of the data rows of a sheet, as 0-based row indexes
RowIndexes(rows) == {p - 1 : p \in 1 .. Len(rows)}

\* the stored activities of the runs of the date queries: dated before
\* today, today, later today and tomorrow, or not dated; planned or not
Listed(type, date, companyId, contactId, status) ==
    [BlankRow EXCEPT !.type = type, !.title = "Oferta", !.date = date,
                     !.companyId = companyId, !.contactId = contactId,
                     !.status = status, !.createdBy = UserEmail,
                     !.createdAt = NowISO]
ListedActivities ==
    {Listed("EMAIL", "2024-01-15", "c1", "", "planned"),
     Listed("TASK", "2024-03-01", "c1", "k1", "planned"),
     Listed("EMAIL", "2024-03-01T12:00:00.000Z", "", "k1", "planned"),
     Listed("EMAIL", "2024-03-02", "c1", "", "completed"),
     Listed("TASK", "2024-03-02", "c2", "", "planned"),
     Listed("TASK", "", "c1", "", "planned"),
     Listed("PHONE", "2024-02-20", "c1", "k1", "cancelled"),
     Listed("MEETING", "2024-03-02", "c1", "", "archived")}
RECURSIVE ListsOf(_, _)
\* the sequences of at most n elements of S
ListsOf(S, n) ==
    IF n = 0 THEN {<<>>}
    ELSE ListsOf(S, n - 1)
         \cup {Append(l, x) : l \in {m \in ListsOf(S, n - 1) : Len(m) = n - 1},
                              x \in S}
\* sheets of listed activities, the row at position p carrying the p-th id
ListedSheets ==
    {[p \in 1 .. Len(l) |-> [l[p] EXCEPT !.id = IdOf(p)]] :
        l \in ListsOf(ListedActivities, MaxListed)}
QueryFilters ==
    [type : {Undef, "EMAIL"}, status : {"", "planned"},
     dateFrom : {Undef, "2024-03-01"}, dateTo : {Undef, "2024-03-01"}]
    \cup {NoFilters}

\* the activities validateActivity is called with
ValidateInputs ==
    [type : {"EMAIL", "TASK", "FAX", Undef},
     title : {Undef, "", "Oferta"},
     date : {Undef, "", "2024-01-15", "jutro"},
     companyId : {Undef, "", "c1"},
     contactId : {Undef, "", "k1"}]

(***************************************************************************)
(* Specifications                                                          *)
(***************************************************************************)
Init ==
    /\ cache = EmptyMap
    /\ now = 0
    /\ ticks = 0
    /\ lastGet = NoGet
    /\ setLog = EmptyMap
    /\ retry = RetryIdle
    /\ sheet = <<>>
    /\ companyHistory = <<>>
    /\ contactHistory = <<>>
    /\ nextId = 0
    /\ typeMeta \in ActivityMetaChoices
    /\ lastOp = NoOp
    /\ call = NoCall
    /\ remote = NoSheets
    /\ io = NoIo
    /\ batch = NoBatch
    /\ InitMore

NextCache ==
    \/ \E k \in CacheKeys, v \in CacheValues : SetCache(k, v)
    \/ \E k \in CacheKeys : GetCache(k)
    \/ \E k \in CacheKeys \cup {""} : ClearCache(k)
    \/ \E d \in ClockSteps : Tick(d)

NextRetry ==
    \/ \E n \in AttemptCounts \cup {MAX_RETRIES} : RetryStart(n)
    \/ \E v \in FnValues : RetryFnReturns(v)
    \/ \E e \in FnErrors : RetryFnThrows(e)
    \/ RetryTimerFires

\* a step that leaves each history sheet with at most n rows
Within(A, n) ==
    /\ A
    /\ Len(companyHistory') <= n
    /\ Len(contactHistory') <= n

NextCreateUpdate ==
    \/ \E p \in CreateInputs : Within(CreateActivity(p), MaxHistory)
    \/ \E id \in ActivityIds, u \in UpdateInputs :
          Within(UpdateActivity(id, u), MaxHistory)
    \/ \E id \in ActivityIds : Within(CompleteActivity(id), MaxHistory)
    \/ \E id \in ActivityIds : Within(CancelActivity(id), MaxHistory)
    \/ \E useCache \in {TRUE} : LoadActivities(useCache)

NextActivities ==
    \/ NextCreateUpdate
    \/ \E id \in ActivityIds : Within(DeleteActivity(id), MaxHistory)

\* longer runs of fewer calls: create, delete and complete
NextDeep ==
    \/ \E p \in DeepCreateInputs : Within(CreateActivity(p), MaxHistoryDeep)
    \/ \E id \in ActivityIds : Within(CompleteActivity(id), MaxHistoryDeep)
    \/ \E id \in ActivityIds : Within(DeleteActivity(id), MaxHistoryDeep)

\* validateActivity on every activity of ValidateInputs, under every
\* metadata choice
InitValidate ==
    /\ cache = EmptyMap
    /\ now = 0
    /\ ticks = 0
    /\ lastGet = NoGet
    /\ setLog = EmptyMap
    /\ retry = RetryIdle
    /\ sheet = <<>>
    /\ companyHistory = <<>>
    /\ contactHistory = <<>>
    /\ nextId = 0
    /\ typeMeta \in MetaChoices
    /\ lastOp = NoOp
    /\ call \in {[NoCall EXCEPT !.activity = a] : a \in ValidateInputs}
    /\ remote = NoSheets
    /\ io = NoIo
    /\ batch = NoBatch
    /\ InitMore

NextValidate == ValidateActivity

\* the loads of DataService over sheets that do not change, with remote
\* reads that may fail
InitRemote ==
    /\ cache = EmptyMap
    /\ now = 0
    /\ ticks = 0
    /\ lastGet = NoGet
    /\ setLog = EmptyMap
    /\ retry = RetryIdle
    /\ sheet \in {<<>>, <<StoredActivity>>}
    /\ companyHistory = <<>>
    /\ contactHistory = <<>>
    /\ nextId = Len(sheet)
    /\ typeMeta \in ActivityMetaChoices
    /\ lastOp = NoOp
    /\ call = NoCall
    /\ remote = RemoteSheets
    /\ io = NoIo
    /\ batch = NoBatch
    /\ InitMore

NextRemote ==
    \/ \E op \in LoadOps, useCache \in BOOLEAN :
          \E arg \in LoadArgs(op) : LoadStart(op, arg, useCache)
    \/ RemoteReadReturns
    \/ \E e \in RemoteErrors : RemoteReadFails(e)
    \/ RetryTimerFires
    \/ \E d \in {CACHE_TTL + 1} : Tick(d)

\* loadAllData over stored sheets, with the companies cached or not
InitBatch ==
    /\ cache \in {EmptyMap,
                  CacheAfterSet(EmptyMap, "companies",
                                CompaniesOf(RemoteSheets["Firmy"]), 0)}
    /\ now = 0
    /\ ticks = 0
    /\ lastGet = NoGet
    /\ setLog = EmptyMap
    /\ retry = RetryIdle
    /\ sheet = <<>>
    /\ companyHistory = StoredHistory("c1")
    /\ contactHistory = StoredHistory("k1")
    /\ nextId = 0
    /\ typeMeta \in ActivityMetaChoices
    /\ lastOp = NoOp
    /\ call = NoCall
    /\ remote = RemoteSheets
    /\ io = NoIo
    /\ batch = NoBatch
    /\ InitMore

NextBatch ==
    \/ LoadAllData
    \/ \E r \in BatchReads : BatchReadReturns(r)
    \/ \E r \in BatchReads : BatchReadFails(r, "e_" \o r)
    \/ \E r \in BatchReads : BatchTimerFires(r)

\* tag relations and companies: cached loads between writes, every remote
\* call succeeding
NextTags ==
    \/ \E op \in TagLoadOps, useCache \in {TRUE} :
          \E arg \in TagLoadArgs(op) : LoadStart(op, arg, useCache)
    \/ RemoteReadReturns
    \/ \E kind \in {"company", "contact"} :
          \E entityId \in TagEntities(kind) : AssignTag(kind, entityId, "t1")
    \/ \E kind \in {"company", "contact"} :
          \E rowIndex \in RowIndexes(remote[TagSheet(kind)]) :
             RemoveTag(kind, remote[TagSheet(kind)][rowIndex + 1].id,
                       rowIndex)
    \/ \E rowIndex \in {-1} \cup RowIndexes(remote["Firmy"]) :
          SaveCompany([id |-> IF rowIndex = -1 THEN ""
                             ELSE remote["Firmy"][rowIndex + 1].id,
                       name |-> IF rowIndex = -1 THEN "Acme" ELSE "Bolt"],
                      rowIndex)
    \/ \E rowIndex \in RowIndexes(remote["Firmy"]) : DeleteCompany(rowIndex)

\* the date queries and applyFilters over every sheet of ListedSheets
InitQueries ==
    /\ cache = EmptyMap
    /\ now = 0
    /\ ticks = 0
    /\ lastGet = NoGet
    /\ setLog = EmptyMap
    /\ retry = RetryIdle
    /\ sheet \in ListedSheets
    /\ companyHistory = <<>>
    /\ contactHistory = <<>>
    /\ nextId = Len(sheet)
    /\ typeMeta = [t \in TypeIds |->
                    [requiresTitle |-> TRUE, requiresDate |-> TRUE]]
    /\ lastOp = NoOp
    /\ call = NoCall
    /\ remote = NoSheets
    /\ io = NoIo
    /\ batch = NoBatch
    /\ InitMore

NextQueries ==
    \/ \E companyId \in {Undef, "c1"}, contactId \in {Undef, "k1"} :
          GetUpcomingActivities(companyId, contactId)
    \/ GetOverdueActivities
    \/ \E filters \in QueryFilters : GetCompanyActivities("c1", filters)
    \/ \E companyId \in {Undef, "c1"}, contactId \in {Undef, "k1"} :
          GetActivityStats(companyId, contactId)

(***************************************************************************)
(* Custom field definitions                                                *)
(***************************************************************************)
DefColumns ==
    {"id", "entityType", "key", "label", "fieldType", "optionsJson",
     "required", "enabled", "order", "createdAt", "updatedAt"}

\* String.prototype.toLowerCase on the cells of the model
CellToLowerCase(s) ==
    CASE s \in {"TRUE", "True"} -> "true"
      [] s \in {"FALSE", "False"} -> "false"
      [] s \in {"YES", "Yes"} -> "yes"
      [] s = "NO" -> "no"
      [] OTHER -> s

\* raw === 'true' || raw === '1' || raw === 'yes'
IsTrueString(raw) == raw \in {"true", "1", "yes"}

\* Number.isFinite(Number(orderRaw)) ? Number(orderRaw) : 0
OrderOf(orderRaw) ==
    CASE orderRaw = "1" -> 1
      [] orderRaw = "2" -> 2
      [] OTHER -> 0

\* the object loadCustomFieldDefinitions builds from the row at index idx of
\* the response; a cell the response lacks is Undef
RowToDefinition(row, idx) ==
    LET requiredRaw == CellToLowerCase(Or(row.required, ""))
        enabledRaw == CellToLowerCase(Or(row.enabled, ""))
    IN [rowIndex |-> idx,
        id |-> Or(row.id, "id_generated"),
        entityType |-> Or(row.entityType, "both"),
        key |-> Or(row.key, ""),
        label |-> Or(row.label, ""),
        fieldType |-> Or(row.fieldType, "text"),
        optionsJson |-> Or(row.optionsJson, ""),
        required |-> IsTrueString(requiredRaw),
        enabled |-> IF enabledRaw = "" THEN TRUE
                    ELSE IsTrueString(enabledRaw),
        order |-> OrderOf(row.order),
        createdAt |-> Or(row.createdAt, ""),
        updatedAt |-> Or(row.updatedAt, "")]

\* rows.map(...).filter(d => d.label && d.key)
RowsToDefinitions(rows) ==
    LET all == [p \in 1 .. Len(rows) |-> RowToDefinition(rows[p], p - 1)]
        Named(d) == ~Falsy(d.label) /\ ~Falsy(d.key)
    IN SelectSeq(all, Named)

\* what loadCustomFieldDefinitions(useCache) returns at time t
LoadDefinitionsResult(c, rows, useCache, t) ==
    IF useCache /\ GetCacheResult(c, "customFieldDefinitions", t).hit
    THEN GetCacheResult(c, "customFieldDefinitions", t).value
    ELSE RowsToDefinitions(rows)

\* the cache after loadCustomFieldDefinitions(useCache)
LoadDefinitionsCache(cs, rows, useCache, t) ==
    IF useCache /\ GetCacheResult(cs.c, "customFieldDefinitions", t).hit
    THEN cs
    ELSE CSet([cs EXCEPT !.c = IF useCache
                                THEN CacheAfterGet(cs.c,
                                         "customFieldDefinitions", t)
                                ELSE cs.c],
              "customFieldDefinitions", RowsToDefinitions(rows), t)

\* loadCustomFieldDefinitions(useCache); call.activities holds the rows of
\* the response
LoadCustomFieldDefinitions(useCache) ==
    \E cs \in {LoadDefinitionsCache([c |-> cache, log |-> setLog], fields,
                                    useCache, now)} :
    /\ call' = [NoCall EXCEPT
                   !.fn = "loadCustomFieldDefinitions",
                   !.activities = fields,
                   !.out = LoadDefinitionsResult(cache, fields, useCache,
                                                 now)]
    /\ cache' = cs.c
    /\ setLog' = cs.log
    /\ lastGet' = NoGet
    /\ UNCHANGED <<now, ticks, retry, storeVars, remote, io, batch,
                   valueVars, fields, settings,
                   otherVars>>

\* rowIndex = null
NoRow == -1

\* every call appends: isUpdate is never true
IsUpdateNever(rowIndex) == FALSE

\* isUpdate = rowIndex !== null && rowIndex !== undefined
IsUpdate(rowIndex) == rowIndex # NoRow

\* the values row of saveCustomFieldDefinition; definition.required and
\* definition.enabled are booleans and definition.order a number in every
\* call of the repository
DefinitionToRow(definition, rowIndex, id) ==
    LET Get(f) == IF f \in DOMAIN definition THEN definition[f] ELSE Undef
    IN [id |-> id,
        entityType |-> Or(Get("entityType"), "both"),
        key |-> Or(Get("key"), ""),
        label |-> Or(Get("label"), ""),
        fieldType |-> Or(Get("fieldType"), "text"),
        optionsJson |-> Or(Get("optionsJson"), ""),
        required |-> IF definition.required THEN "TRUE" ELSE "FALSE",
        enabled |-> IF definition.enabled THEN "TRUE" ELSE "FALSE",
        order |-> ToString(definition.order),
        createdAt |-> Or(Get("createdAt"),
                         IF IsUpdate(rowIndex) THEN "" ELSE NowISO),
        updatedAt |-> NowISO]

\* the CustomFields sheet after values.update on row rowIndex + 2 or
\* values.append, both with valueInputOption USER_ENTERED
FieldsAfterSave(rows, row, rowIndex) ==
    LET entered == [c \in DefColumns |-> UserEntered(row[c])]
        blank == [c \in DefColumns |-> Undef]
    IN IF IsUpdate(rowIndex)
       THEN [p \in 1 .. (IF rowIndex + 1 > Len(rows) THEN rowIndex + 1
                         ELSE Len(rows)) |->
                IF p = rowIndex + 1 THEN entered
                ELSE IF p <= Len(rows) THEN rows[p]
                ELSE blank]
       ELSE Append(rows, entered)

\* what saveCustomFieldDefinition(definition, rowIndex) does to DataService
\* and the sheet
saveCustomFieldDefinition(definition, rowIndex) ==
    \E generate \in {"id" \notin DOMAIN definition} :
    \E id \in {IF generate THEN IdOf(nextId + 1) ELSE definition.id} :
    /\ IsUpdate(rowIndex) \/ Len(fields) < MaxFieldRows
    /\ generate => nextId < MaxIds
    /\ fields' = FieldsAfterSave(fields,
                     DefinitionToRow(definition, rowIndex, id), rowIndex)
    /\ nextId' = IF generate THEN nextId + 1 ELSE nextId
    /\ cache' = CacheAfterClear(cache, "customFieldDefinitions")
    /\ setLog' = MapDelete(setLog, "customFieldDefinitions")
    /\ lastGet' = NoGet
    /\ call' = [NoCall EXCEPT
                   !.fn = "saveCustomFieldDefinition",
                   !.activities = fields,
                   !.filters = [rowIndex |-> rowIndex],
                   !.out = <<id>>,
                   !.after = fields']
    /\ UNCHANGED <<now, ticks, retry, sheet, companyHistory, contactHistory,
                   typeMeta, lastOp, remote, io, batch, valueVars,
                   otherVars>>

\* saveCustomFieldDefinition(definition, rowIndex) called on its own
SaveCustomFieldDefinition(definition, rowIndex) ==
    /\ saveCustomFieldDefinition(definition, rowIndex)
    /\ UNCHANGED settings

\* disableCustomFieldDefinition(rowIndex): call.activities holds the sheet
\* before the call and call.after the sheet after it
DisableCustomFieldDefinition(rowIndex) ==
    \E defs \in {RowsToDefinitions(fields)} :
    \E found \in {{j \in 1 .. Len(defs) : defs[j].rowIndex = rowIndex}} :
    \E cs \in {LoadDefinitionsCache([c |-> cache, log |-> setLog], fields,
                                    FALSE, now)} :
    /\ IF found = {}
       THEN /\ fields' = fields
            /\ cache' = cs.c
            /\ setLog' = cs.log
       ELSE \E def \in {[defs[CHOOSE j \in found : TRUE]
                            EXCEPT !.enabled = FALSE]} :
            /\ fields' = FieldsAfterSave(fields,
                             DefinitionToRow(def, rowIndex, def.id),
                             rowIndex)
            /\ cache' = CacheAfterClear(cs.c, "customFieldDefinitions")
            /\ setLog' = MapDelete(cs.log, "customFieldDefinitions")
    /\ lastGet' = NoGet
    /\ call' = [NoCall EXCEPT
                   !.fn = "disableCustomFieldDefinition",
                   !.activities = fields,
                   !.filters = [rowIndex |-> rowIndex],
                   !.valid = found # {},
                   !.after = fields']
    /\ UNCHANGED <<now, ticks, retry, storeVars, remote, io, batch,
                   valueVars, settings,
                   otherVars>>

\* disableCustomFieldDefinition(rowIndex) when every attempt of the
\* values.update of saveCustomFieldDefinition throws.  The load has cached
\* the array it returned, def is an element of that array, and def.enabled =
\* false is assigned before the save is awaited; clearCache, which follows
\* the awaited request, is not reached
DisableCustomFieldDefinitionFails(rowIndex) ==
    \E defs \in {RowsToDefinitions(fields)} :
    \E found \in {{j \in 1 .. Len(defs) : defs[j].rowIndex = rowIndex}} :
    /\ found # {}
    /\ \E j \in {CHOOSE j \in found : \A i \in found : j <= i} :
       \E mutated \in {[defs EXCEPT ![j].enabled = FALSE]} :
       \E cs \in {CSet([c |-> cache, log |-> setLog],
                        "customFieldDefinitions", mutated, now)} :
          /\ cache' = cs.c
          /\ setLog' = cs.log
    /\ lastGet' = NoGet
    /\ call' = [NoCall EXCEPT
                   !.fn = "disableCustomFieldDefinition",
                   !.activities = fields,
                   !.filters = [rowIndex |-> rowIndex],
                   !.errors = <<"request">>,
                   !.after = fields]
    /\ UNCHANGED <<now, ticks, retry, storeVars, remote, io, batch, fields,
                   valueVars, settings, otherVars>>

(***************************************************************************)
(* The settings page (settings.js, the variant that calls                  *)
(* saveCustomFieldDefinition)                                              *)
(***************************************************************************)
\* openModalForCreate()
OpenModalForCreate ==
    /\ settings' = [settings EXCEPT !.editingRowIndex = NoRow,
                                    !.editingDef = <<>>]
    /\ UNCHANGED <<cacheVars, retry, storeVars, call, remote, io, batch,
                   fields, valueVars,
                   otherVars>>

\* a click on Edytuj in the row of allDefs[j]: openModalForEdit(def)
OpenModalForEdit(j) ==
    /\ j \in 1 .. Len(settings.allDefs)
    /\ settings' = [settings EXCEPT
                       !.editingRowIndex = settings.allDefs[j].rowIndex,
                       !.editingDef = <<settings.allDefs[j]>>]
    /\ UNCHANGED <<cacheVars, retry, storeVars, call, remote, io, batch,
                   fields, valueVars,
                   otherVars>>

\* allDefs.some(d => d.key === key && d._rowIndex !== editingRowIndex)
KeyTaken(allDefs, key, editingRowIndex) ==
    \E j \in 1 .. Len(allDefs) :
        allDefs[j].key = key /\ allDefs[j].rowIndex # editingRowIndex

\* { ...base, label, key, entityType, fieldType, optionsJson, required,
\*   enabled, order, createdAt: base.createdAt || '' }
Payload(editingDef, label, key) ==
    LET base == IF editingDef = <<>> THEN [c \in {} |-> ""]
                ELSE editingDef[1]
        form == [label |-> label, key |-> key, entityType |-> "company",
                 fieldType |-> "text", optionsJson |-> "",
                 required |-> FALSE, enabled |-> TRUE, order |-> 0,
                 createdAt |-> IF "createdAt" \in DOMAIN base
                               THEN Or(base.createdAt, "") ELSE ""]
    IN [c \in DOMAIN base \cup DOMAIN form |->
           IF c \in DOMAIN form THEN form[c] ELSE base[c]]

\* the submit handler of customFieldForm up to its first await: the call
\* of saveCustomFieldDefinition is in flight afterwards
Submit(label, key) ==
    /\ Len(settings.forms) < MaxForms
    /\ Len(fields) + Len(settings.forms) < MaxFieldRows
    /\ IF \/ Falsy(label)
          \/ Falsy(key)
          \/ KeyTaken(settings.allDefs, key, settings.editingRowIndex)
       THEN settings' = settings
       ELSE settings' =
                [settings EXCEPT
                   !.forms = Append(@,
                       [payload |-> Payload(settings.editingDef, label, key),
                        rowIndex |-> settings.editingRowIndex,
                        pc |-> "save"])]
    /\ UNCHANGED <<cacheVars, retry, storeVars, call, remote, io, batch,
                   fields, valueVars,
                   otherVars>>

\* settings.forms with the submission at position i at the given step
FormAt(forms, i, pc) == [forms EXCEPT ![i].pc = pc]

\* settings.forms without the submission at position i
FormsWithout(forms, i) ==
    [p \in 1 .. Len(forms) - 1 |-> IF p < i THEN forms[p] ELSE forms[p + 1]]

\* the save of submission i returns: the handler goes on to loadDefs()
SaveReturns(i) ==
    /\ i \in 1 .. Len(settings.forms)
    /\ settings.forms[i].pc = "save"
    /\ saveCustomFieldDefinition(settings.forms[i].payload,
                                 settings.forms[i].rowIndex)
    /\ settings' = [settings EXCEPT !.forms = FormAt(@, i, "load")]

\* loadDefs() of submission i returns: allDefs is replaced and the handler
\* ends (renderCustomFieldsTable and closeModal change no state kept here)
LoadDefsReturns(i) ==
    /\ i \in 1 .. Len(settings.forms)
    /\ settings.forms[i].pc = "load"
    /\ \E cs \in {LoadDefinitionsCache([c |-> cache, log |-> setLog],
                                       fields, FALSE, now)} :
          /\ cache' = cs.c
          /\ setLog' = cs.log
    /\ lastGet' = NoGet
    /\ settings' = [settings EXCEPT
                       !.allDefs = RowsToDefinitions(fields),
                       !.forms = FormsWithout(@, i)]
    /\ UNCHANGED <<now, ticks, retry, storeVars, call, remote, io, batch,
                   fields, valueVars,
                   otherVars>>

\* the cells of the boolean-like columns: as the application writes them,
\* as typed by hand, empty, and missing from the response
BoolCells == {"TRUE", "FALSE", "true", "Yes", "1", "0", "no", "", Undef}
FieldRow(key, required, enabled) ==
    [id |-> "f_" \o key, entityType |-> "company", key |-> key,
     label |-> "Pole " \o key, fieldType |-> "text", optionsJson |-> "",
     required |-> required, enabled |-> enabled, order |-> "1",
     createdAt |-> "2024-02-20", updatedAt |-> "2024-02-20"]

\* a CustomFields sheet of one or two rows with every pair of cells
InitDecode ==
    /\ cache = EmptyMap
    /\ now = 0
    /\ ticks = 0
    /\ lastGet = NoGet
    /\ setLog = EmptyMap
    /\ retry = RetryIdle
    /\ sheet = <<>>
    /\ companyHistory = <<>>
    /\ contactHistory = <<>>
    /\ nextId = 0
    /\ typeMeta = [t \in TypeIds |->
                    [requiresTitle |-> TRUE, requiresDate |-> TRUE]]
    /\ lastOp = NoOp
    /\ call = NoCall
    /\ remote = NoSheets
    /\ io = NoIo
    /\ batch = NoBatch
    /\ fieldValues = <<>>
    /\ settings = NoSettings
    /\ saves = <<>>
    /\ InitOther
    /\ \E r1, e1 \in BoolCells :
          \/ fields = <<FieldRow("budget", r1, e1)>>
          \/ fields = <<FieldRow("budget", r1, e1),
                        FieldRow("nip", e1, r1)>>

\* the definitions a caller saves
SavedDefinition(key, fieldType, flag) ==
    [key |-> key, label |-> "Pole " \o key, entityType |-> "contact",
     fieldType |-> fieldType, optionsJson |-> "", required |-> flag,
     enabled |-> flag, order |-> 2, createdAt |-> ""]
SavedDefinitions ==
    {SavedDefinition("budget", "number", TRUE),
     SavedDefinition("nip", "", FALSE)}

\* a CustomFields sheet of up to two rows, written by the application or
\* typed by hand, one of them a row without a key
InitFields ==
    /\ cache = EmptyMap
    /\ now = 0
    /\ ticks = 0
    /\ lastGet = NoGet
    /\ setLog = EmptyMap
    /\ retry = RetryIdle
    /\ sheet = <<>>
    /\ companyHistory = <<>>
    /\ contactHistory = <<>>
    /\ nextId = 0
    /\ typeMeta = [t \in TypeIds |->
                    [requiresTitle |-> TRUE, requiresDate |-> TRUE]]
    /\ lastOp = NoOp
    /\ call = NoCall
    /\ remote = NoSheets
    /\ io = NoIo
    /\ batch = NoBatch
    /\ fieldValues = <<>>
    /\ settings = NoSettings
    /\ saves = <<>>
    /\ InitOther
    /\ fields \in
          {<<>>,
           <<FieldRow("budget", "TRUE", "TRUE")>>,
           <<FieldRow("budget", "yes", ""),
             [FieldRow("nip", "FALSE", "TRUE") EXCEPT !.entityType = "",
                                                      !.order = "x"]>>,
           <<[FieldRow("", "FALSE", "TRUE") EXCEPT !.id = ""],
             FieldRow("nip", "1", "1")>>}

NextFields ==
    \/ \E useCache \in BOOLEAN : LoadCustomFieldDefinitions(useCache)
    \/ \E definition \in SavedDefinitions :
          SaveCustomFieldDefinition(definition, NoRow)
    \/ \E definition \in SavedDefinitions, rowIndex \in 0 .. 1 :
          SaveCustomFieldDefinition(
              [c \in DOMAIN definition \cup {"id"} |->
                  IF c = "id" THEN "f_edited" ELSE definition[c]],
              rowIndex)
    \/ \E rowIndex \in 0 .. MaxFieldRows - 1 :
          DisableCustomFieldDefinition(rowIndex)

\* the definition calls, the save inside disable free to fail
NextDisableFails ==
    \/ NextFields
    \/ \E rowIndex \in 0 .. MaxFieldRows - 1 :
          DisableCustomFieldDefinitionFails(rowIndex)

(***************************************************************************)
(* Custom field values                                                     *)
(***************************************************************************)
\* the values objects of the model, {} among them
NoValues == [k \in {} |-> ""]
ValuesObjects == {NoValues, [budget |-> 500], [nip |-> "PL1"]}

\* JSON.stringify(valuesObj || {}) on the values objects of the model
JsonStringify(obj) ==
    CASE obj = NoValues -> "{}"
      [] DOMAIN obj = {"budget"} -> "{\"budget\":" \o ToString(obj.budget) \o "}"
      [] DOMAIN obj = {"nip"} -> "{\"nip\":\"" \o obj.nip \o "\"}"
      [] OTHER -> "{}"

\* row[3] ? JSON.parse(row[3]) : {} inside try/catch, on the cells of the
\* model; a cell that is no JSON text reads as {}
ParseValues(cell) ==
    CASE cell = "{\"budget\":500}" -> [budget |-> 500]
      [] cell = "{\"nip\":\"PL1\"}" -> [nip |-> "PL1"]
      [] OTHER -> NoValues

\* the positions of the rows of an entity in the CustomFieldValues sheet
RowsOfEntity(rows, entityType, entityId) ==
    {p \in 1 .. Len(rows) :
        /\ Or(rows[p].entityType, "") = entityType
        /\ Or(rows[p].entityId, "") = entityId}

\* the remote read with a row whose cell does not parse passed over
FindValuesParsedOnly(rows, entityType, entityId) ==
    LET found == {p \in RowsOfEntity(rows, entityType, entityId) :
                     \/ rows[p].valuesJson = ""
                     \/ ParseValues(rows[p].valuesJson) # NoValues
                     \/ rows[p].valuesJson = "{}"}
    IN IF found = {}
       THEN [rowIndex |-> NoRow, id |-> "", values |-> NoValues]
       ELSE LET p == CHOOSE x \in found : \A y \in found : x <= y
            IN [rowIndex |-> p - 1, id |-> Or(rows[p].id, ""),
                values |-> ParseValues(rows[p].valuesJson)]

\* the result of the remote read of loadCustomFieldValues: the first row of
\* the entity, or { _rowIndex: null, id: '', values: {} }
FindValues(rows, entityType, entityId) ==
    LET found == RowsOfEntity(rows, entityType, entityId)
    IN IF found = {}
       THEN [rowIndex |-> NoRow, id |-> "", values |-> NoValues]
       ELSE LET p == CHOOSE x \in found : \A y \in found : x <= y
            IN [rowIndex |-> p - 1, id |-> Or(rows[p].id, ""),
                values |-> ParseValues(rows[p].valuesJson)]

ValuesKey(entityType, entityId) ==
    "customFieldValues:" \o entityType \o ":" \o entityId

\* saveCustomFieldValues(entityType, entityId, valuesObj) up to its first
\* await: loadCustomFieldValues(entityType, entityId, false) is in flight
SaveValuesStart(entityType, entityId, valuesObj) ==
    /\ Len(saves) < MaxSaves
    /\ Len(fieldValues) + Len(saves) < MaxValueRows
    /\ nextId + Len(saves) < MaxIds
    /\ saves' = Append(saves,
                       [entityType |-> entityType, entityId |-> entityId,
                        valuesObj |-> valuesObj, pc |-> "load",
                        current |-> FindValues(<<>>, "", "")])
    /\ UNCHANGED <<cacheVars, retry, storeVars, call, remote, io, batch,
                   fields, fieldValues, settings,
                   otherVars>>

\* the load of save i returns: current is what the sheet holds now, the
\* result is cached, and the write is sent
SaveValuesLoaded(i) ==
    /\ i \in 1 .. Len(saves)
    /\ saves[i].pc = "load"
    /\ \E current \in {FindValues(fieldValues, saves[i].entityType,
                                    saves[i].entityId)} :
       \E cs \in {CSet([c |-> cache, log |-> setLog],
                        ValuesKey(saves[i].entityType, saves[i].entityId),
                        current, now)} :
          /\ saves' = [saves EXCEPT ![i].pc = "write",
                                    ![i].current = current]
          /\ cache' = cs.c
          /\ setLog' = cs.log
    /\ lastGet' = NoGet
    /\ UNCHANGED <<now, ticks, retry, storeVars, call, remote, io, batch,
                   fields, fieldValues, settings,
                   otherVars>>

\* the values row of saveCustomFieldValues
ValuesToRow(save, id) ==
    [id |-> id, entityType |-> save.entityType, entityId |-> save.entityId,
     valuesJson |-> JsonStringify(save.valuesObj), updatedAt |-> NowISO,
     updatedBy |-> Or(UserEmail, "")]

\* the write of save i returns: values.update on the row found by the load
\* or values.append, then the two clearCache calls
SaveValuesWritten(i) ==
    /\ i \in 1 .. Len(saves)
    /\ saves[i].pc = "write"
    /\ \E isUpdate \in {IsUpdate(saves[i].current.rowIndex)} :
       \E generate \in {Falsy(saves[i].current.id)} :
       \E id \in {IF generate THEN IdOf(nextId + 1)
                   ELSE saves[i].current.id} :
       \E row \in {[c \in DOMAIN ValuesToRow(saves[i], id) |->
                       UserEntered(ValuesToRow(saves[i], id)[c])]} :
          /\ fieldValues' =
                 IF isUpdate
                 THEN [fieldValues EXCEPT
                         ![saves[i].current.rowIndex + 1] = row]
                 ELSE Append(fieldValues, row)
          /\ nextId' = IF generate THEN nextId + 1 ELSE nextId
          /\ call' = [NoCall EXCEPT
                         !.fn = "saveCustomFieldValues",
                         !.filters = [entityType |-> saves[i].entityType,
                                      entityId |-> saves[i].entityId],
                         !.out = <<saves[i].valuesObj>>,
                         !.valid = isUpdate]
    /\ saves' = [p \in 1 .. Len(saves) - 1 |->
                    IF p < i THEN saves[p] ELSE saves[p + 1]]
    /\ cache' = CacheAfterClear(
                    CacheAfterClear(cache, "customFieldDefinitions"),
                    ValuesKey(saves[i].entityType, saves[i].entityId))
    /\ setLog' = MapDelete(MapDelete(setLog, "customFieldDefinitions"),
                           ValuesKey(saves[i].entityType, saves[i].entityId))
    /\ lastGet' = NoGet
    /\ UNCHANGED <<now, ticks, retry, sheet, companyHistory, contactHistory,
                   typeMeta, lastOp, remote, io, batch, fields, settings,
                   otherVars>>

\* loadCustomFieldValues(entityType, entityId, useCache) called on its own,
\* the remote read succeeding
LoadCustomFieldValues(entityType, entityId, useCache) ==
    \E key \in {ValuesKey(entityType, entityId)} :
    \E cached \in {GetCacheResult(cache, key, now)} :
    \E fromCache \in {useCache /\ cached.hit} :
    \E result \in {IF fromCache THEN cached.value
                    ELSE FindValues(fieldValues, entityType, entityId)} :
    \E cs0 \in {IF useCache
                 THEN [c |-> CacheAfterGet(cache, key, now),
                       log |-> IF key \in DOMAIN cache /\ ~cached.hit
                               THEN MapDelete(setLog, key) ELSE setLog]
                 ELSE [c |-> cache, log |-> setLog]} :
    \E cs \in {IF fromCache THEN cs0 ELSE CSet(cs0, key, result, now)} :
    /\ call' = [NoCall EXCEPT
                   !.fn = "loadCustomFieldValues",
                   !.filters = [entityType |-> entityType,
                                entityId |-> entityId],
                   !.activities = fieldValues,
                   !.out = <<result>>,
                   !.valid = fromCache]
    /\ cache' = cs.c
    /\ setLog' = cs.log
    /\ lastGet' = NoGet
    /\ UNCHANGED <<now, ticks, retry, storeVars, remote, io, batch, fields,
                   valueVars, settings, otherVars>>

\* cells of the values column that JSON.parse rejects
MalformedCells == {"{budget:", "nie json"}

\* the sheet holds a row of company c1 whose values cell is no JSON text,
\* first or after a row of company c2
InitMalformed ==
    /\ cache = EmptyMap
    /\ now = 0
    /\ ticks = 0
    /\ lastGet = NoGet
    /\ setLog = EmptyMap
    /\ retry = RetryIdle
    /\ sheet = <<>>
    /\ companyHistory = <<>>
    /\ contactHistory = <<>>
    /\ nextId = 0
    /\ typeMeta = [t \in TypeIds |->
                    [requiresTitle |-> TRUE, requiresDate |-> TRUE]]
    /\ lastOp = NoOp
    /\ call = NoCall
    /\ remote = NoSheets
    /\ io = NoIo
    /\ batch = NoBatch
    /\ fields = <<>>
    /\ settings = NoSettings
    /\ saves = <<>>
    /\ InitOther
    /\ \E cell \in MalformedCells :
       \E bad \in {[id |-> "v_1", entityType |-> "company",
                     entityId |-> "c1", valuesJson |-> cell,
                     updatedAt |-> "2024-02-20", updatedBy |-> UserEmail]} :
          fieldValues \in
              {<<bad>>,
               <<[id |-> "v_2", entityType |-> "company", entityId |-> "c2",
                  valuesJson |-> "{\"budget\":500}",
                  updatedAt |-> "2024-02-20", updatedBy |-> UserEmail],
                 bad>>}

\* no value has been saved yet, or one row holds the values of company c1
InitValues ==
    /\ cache = EmptyMap
    /\ now = 0
    /\ ticks = 0
    /\ lastGet = NoGet
    /\ setLog = EmptyMap
    /\ retry = RetryIdle
    /\ sheet = <<>>
    /\ companyHistory = <<>>
    /\ contactHistory = <<>>
    /\ nextId = 0
    /\ typeMeta = [t \in TypeIds |->
                    [requiresTitle |-> TRUE, requiresDate |-> TRUE]]
    /\ lastOp = NoOp
    /\ call = NoCall
    /\ remote = NoSheets
    /\ io = NoIo
    /\ batch = NoBatch
    /\ fields = <<>>
    /\ settings = NoSettings
    /\ saves = <<>>
    /\ InitOther
    /\ fieldValues \in
          {<<>>,
           <<[id |-> "v_1", entityType |-> "company", entityId |-> "c1",
              valuesJson |-> "{\"nip\":\"PL1\"}",
              updatedAt |-> "2024-02-20", updatedBy |-> UserEmail]>>}

NextValues ==
    \/ \E entityId \in {"c1", "c2"}, valuesObj \in ValuesObjects :
          SaveValuesStart("company", entityId, valuesObj)
    \/ \E i \in 1 .. MaxSaves : SaveValuesLoaded(i)
    \/ \E i \in 1 .. MaxSaves : SaveValuesWritten(i)

\* loads and saves of the values of company c1
NextMalformed ==
    \/ \E useCache \in BOOLEAN :
          LoadCustomFieldValues("company", "c1", useCache)
    \/ \E valuesObj \in ValuesObjects :
          SaveValuesStart("company", "c1", valuesObj)
    \/ \E i \in 1 .. MaxSaves : SaveValuesLoaded(i)
    \/ \E i \in 1 .. MaxSaves : SaveValuesWritten(i)

(***************************************************************************)
(* CustomFieldsUI.  The file holds two classes of that name: variant 1     *)
(* reads def.type and def.name and skips disabled definitions, variant 2   *)
(* reads def.fieldType and def.label.  A JavaScript value is a record of   *)
(* its type and of String(value).                                          *)
(***************************************************************************)
UiVariants == {1, 2}
JsUndefined == [type |-> "undefined", text |-> ""]
JsString(text) == [type |-> "string", text |-> text]
JsNumber(text) == [type |-> "number", text |-> text]
JsBoolean(b) == [type |-> "boolean", text |-> IF b THEN "true" ELSE "false"]

\* values?.[def.key]
ValueOf(values, key) ==
    IF key \in DOMAIN values THEN values[key] ELSE JsUndefined

\* idPrefix + safeId(def.key), on keys that are slugs already
InputId(def, variant) == (IF variant = 1 THEN "cf_" ELSE "") \o def.key

\* (def.type || 'text').toLowerCase() in variant 1 and (def.fieldType ||
\* 'text').toLowerCase() in variant 2
ControlType(def, variant) ==
    LET prop == IF variant = 1
                THEN (IF "type" \in DOMAIN def THEN def.type ELSE Undef)
                ELSE def.fieldType
        t == Or(prop, "text")
    IN IF t \in {"textarea", "number", "date", "email", "url", "checkbox",
                 "select"}
       THEN t ELSE "text"

\* parseOptions(def) on the option lists of the model
ParseOptions(def) ==
    IF def.optionsJson = "[\"A\",\"B\"]" THEN <<"A", "B">> ELSE <<>>

\* the value an input of the given type holds once the browser has parsed
\* value="...": a number input keeps only a valid number, a date input
\* only a valid date
ParsedValue(type, text) ==
    CASE type = "number" -> IF text \in {"500", "0"} THEN text ELSE ""
      [] type = "date" -> IF text \in {"2024-01-15", "2024-02-20"} THEN text
                          ELSE ""
      [] OTHER -> text

\* buildField(def, value, idPrefix): the controls of the returned HTML
buildField(def, value, variant) ==
    LET v == IF value.type = "undefined" THEN JsString("") ELSE value
        type == ControlType(def, variant)
        options == ParseOptions(def)
        control == [id |-> InputId(def, variant), type |-> type,
                    value |-> "", checked |-> FALSE]
    IN IF variant = 1 /\ ~def.enabled THEN <<>>
       ELSE IF type = "checkbox"
       THEN <<[control EXCEPT
                 !.value = "on",
                 !.checked = \/ CellToLowerCase(v.text) = "true"
                             \/ v.text = "1"]>>
       ELSE IF type = "select"
       THEN <<[control EXCEPT
                 !.value = IF \E j \in 1 .. Len(options) :
                                  options[j] = v.text
                              THEN v.text ELSE ""]>>
       ELSE <<[control EXCEPT !.value = ParsedValue(type, v.text)]>>

RECURSIVE InsertByOrder(_, _)
InsertByOrder(x, sorted) ==
    IF sorted = <<>> THEN <<x>>
    ELSE IF Head(sorted).order - x.order <= 0
    THEN <<Head(sorted)>> \o InsertByOrder(x, Tail(sorted))
    ELSE <<x>> \o sorted

RECURSIVE SortByOrder(_)
\* [...defs].sort((a, b) => (a.order ?? 0) - (b.order ?? 0))
SortByOrder(defs) ==
    IF defs = <<>> THEN <<>>
    ELSE InsertByOrder(defs[Len(defs)],
                       SortByOrder(SubSeq(defs, 1, Len(defs) - 1)))

\* the definitions mount and detailRows go through: variant 1 filters on
\* def.enabled before it sorts
Shown(defs, variant) ==
    LET Enabled(d) == d.enabled
    IN SortByOrder(IF variant = 1 THEN SelectSeq(defs, Enabled) ELSE defs)

RECURSIVE Controls(_, _, _)
\* the controls of containerEl after mount(containerEl, defs, values)
Controls(sorted, values, variant) ==
    IF sorted = <<>> THEN <<>>
    ELSE buildField(Head(sorted), ValueOf(values, Head(sorted).key), variant)
         \o Controls(Tail(sorted), values, variant)

\* containerEl.querySelector('#' + inputId): the first such control, if any
QuerySelector(container, id) ==
    LET Is(c) == c.id = id
    IN SubSeq(SelectSeq(container, Is), 1, 1)

\* the value collect stores for an element
Collected(el, type) ==
    CASE type = "checkbox" -> JsBoolean(el.checked)
      [] type = "number" -> IF el.value = "" THEN JsString("")
                            ELSE JsNumber(el.value)
      [] OTHER -> JsString(el.value)

RECURSIVE collect(_, _, _, _)
\* collect(containerEl, defs, idPrefix), result being the object so far
collect(result, container, defs, variant) ==
    IF defs = <<>> THEN result
    ELSE LET def == Head(defs)
             el == QuerySelector(container, InputId(def, variant))
         IN IF (variant = 1 /\ ~def.enabled) \/ el = <<>>
            THEN collect(result, container, Tail(defs), variant)
            ELSE collect(
                     [k \in DOMAIN result \cup {def.key} |->
                         IF k = def.key
                         THEN Collected(el[1], ControlType(def, variant))
                         ELSE result[k]],
                     container, Tail(defs), variant)

\* detailRows(defs, values): the key of each row that is pushed
detailRows(defs, values, variant) ==
    LET Kept(def) ==
            LET v == ValueOf(values, def.key)
                type == IF variant = 1
                        THEN (IF "type" \in DOMAIN def THEN def.type
                              ELSE Undef)
                        ELSE def.fieldType
            IN ~(\/ v.type = "undefined"
                 \/ v = JsString("")
                 \/ (type = "checkbox" /\ v = JsBoolean(FALSE)))
        kept == SelectSeq(Shown(defs, variant), Kept)
    IN [j \in 1 .. Len(kept) |-> kept[j].key]

\* CustomFieldsUI.mount(containerEl, defs, values) with the definitions
\* loadCustomFieldDefinitions returns
Mount(variant) ==
    /\ ui' = [ui EXCEPT
                 !.fn = "mount",
                 !.variant = variant,
                 !.defs = RowsToDefinitions(fields),
                 !.container = Controls(Shown(RowsToDefinitions(fields),
                                              variant),
                                        ui.values, variant),
                 !.result = <<>>,
                 !.rows = <<>>]
    /\ UNCHANGED <<cacheVars, retry, storeVars, call, remote, io, batch,
                   fields, valueVars, settings, ai, peer>>

\* CustomFieldsUI.collect(containerEl, defs) of the class that mounted,
\* right after mount
Collect ==
    /\ ui.fn = "mount"
    /\ ui' = [ui EXCEPT
                 !.fn = "collect",
                 !.result = collect(<<>>, ui.container, ui.defs,
                                    ui.variant)]
    /\ UNCHANGED <<cacheVars, retry, storeVars, call, remote, io, batch,
                   fields, valueVars, settings, ai, peer>>

\* CustomFieldsUI.detailRows(defs, values)
DetailRows(variant) ==
    /\ ui' = [ui EXCEPT
                 !.fn = "detailRows",
                 !.variant = variant,
                 !.defs = RowsToDefinitions(fields),
                 !.container = <<>>,
                 !.result = <<>>,
                 !.rows = detailRows(RowsToDefinitions(fields), ui.values,
                                     variant)]
    /\ UNCHANGED <<cacheVars, retry, storeVars, call, remote, io, batch,
                   fields, valueVars, settings, ai, peer>>

\* the rows of the definitions that are rendered
UiRow(key, fieldType, enabled, order) ==
    [FieldRow(key, "FALSE", enabled) EXCEPT !.fieldType = fieldType,
                                            !.order = order]
\* the values mappings: each value of the type its field collects
UiValues ==
    {[budget |-> JsNumber("500"), vip |-> JsBoolean(TRUE),
      note |-> JsString("abc")],
     [budget |-> JsNumber("0"), vip |-> JsBoolean(FALSE)],
     [note |-> JsString("abc")]}

\* three definitions (number, checkbox, text), each enabled or disabled,
\* and a values mapping
InitUi ==
    /\ cache = EmptyMap
    /\ now = 0
    /\ ticks = 0
    /\ lastGet = NoGet
    /\ setLog = EmptyMap
    /\ retry = RetryIdle
    /\ sheet = <<>>
    /\ companyHistory = <<>>
    /\ contactHistory = <<>>
    /\ nextId = 0
    /\ typeMeta = [t \in TypeIds |->
                    [requiresTitle |-> TRUE, requiresDate |-> TRUE]]
    /\ lastOp = NoOp
    /\ call = NoCall
    /\ remote = NoSheets
    /\ io = NoIo
    /\ batch = NoBatch
    /\ fieldValues = <<>>
    /\ settings = NoSettings
    /\ saves = <<>>
    /\ ai = NoAi
    /\ peer = NoPeer
    /\ \E e1, e2, e3 \in {"TRUE", "FALSE"} :
          fields = <<UiRow("budget", "number", e1, "2"),
                     UiRow("vip", "checkbox", e2, "1"),
                     UiRow("note", "text", e3, "2")>>
    /\ \E values \in UiValues : ui = [NoUi EXCEPT !.values = values]

NextUi ==
    \/ \E variant \in UiVariants : Mount(variant)
    \/ Collect
    \/ \E variant \in UiVariants : DetailRows(variant)

\* the settings page once DOMContentLoaded has loaded allDefs
InitSettings ==
    /\ now = 0
    /\ ticks = 0
    /\ lastGet = NoGet
    /\ retry = RetryIdle
    /\ sheet = <<>>
    /\ companyHistory = <<>>
    /\ contactHistory = <<>>
    /\ nextId = 0
    /\ typeMeta = [t \in TypeIds |->
                    [requiresTitle |-> TRUE, requiresDate |-> TRUE]]
    /\ lastOp = NoOp
    /\ call = NoCall
    /\ remote = NoSheets
    /\ io = NoIo
    /\ batch = NoBatch
    /\ fieldValues = <<>>
    /\ saves = <<>>
    /\ InitOther
    /\ fields \in {<<>>, <<FieldRow("budget", "TRUE", "TRUE")>>}
    /\ settings = [NoSettings EXCEPT !.allDefs = RowsToDefinitions(fields)]
    /\ \E cs \in {LoadDefinitionsCache([c |-> EmptyMap, log |-> EmptyMap],
                                       fields, FALSE, 0)} :
          /\ cache = cs.c
          /\ setLog = cs.log

NextSettings ==
    \/ OpenModalForCreate
    \/ \E j \in 1 .. MaxFieldRows : OpenModalForEdit(j)
    \/ \E key \in {"budget", "nip", ""} : Submit("Pole", key)
    \/ \E i \in 1 .. MaxForms : SaveReturns(i)
    \/ \E i \in 1 .. MaxForms : LoadDefsReturns(i)

NextDecode ==
    \/ \E useCache \in BOOLEAN : LoadCustomFieldDefinitions(useCache)
    \/ Tick(CACHE_TTL + 1)

\* updateActivity(activityId, updates) when the values.get of
\* loadActivities(false) throws: the catch inside the fn returns [], nothing
\* is cached, and the call goes on with the empty list
UpdateActivityReadFails(activityId, updates) ==
    \E activities \in {DegradedResult("loadActivities")} :
    \E cs0 \in {CacheAfterFailedRead([c |-> cache, log |-> setLog],
                                     "activities", activities, now)} :
    \E index \in {FindIndex(activities, activityId)} :
    /\ index = -1
    /\ lastOp' = Failed("update", activityId, updates, "notfound", <<>>,
                        BlankRow)
    /\ cache' = cs0.c
    /\ setLog' = cs0.log
    /\ lastGet' = NoGet
    /\ UNCHANGED <<sheet, companyHistory, contactHistory, now, ticks, retry,
                   nextId, typeMeta, auxVars>>

\* deleteActivity(activityId) when the values.get of loadActivities(false)
\* throws
DeleteActivityReadFails(activityId) ==
    \E activities \in {DegradedResult("loadActivities")} :
    \E cs0 \in {CacheAfterFailedRead([c |-> cache, log |-> setLog],
                                     "activities", activities, now)} :
    \E index \in {FindIndex(activities, activityId)} :
    /\ index = -1
    /\ lastOp' = Failed("delete", activityId, NoUpdates, "notfound", <<>>,
                        BlankRow)
    /\ cache' = cs0.c
    /\ setLog' = cs0.log
    /\ lastGet' = NoGet
    /\ UNCHANGED <<sheet, companyHistory, contactHistory, now, ticks, retry,
                   nextId, typeMeta, auxVars>>

\* the activity calls, the remote read of update and delete free to fail
NextReadFails ==
    \/ NextActivities
    \/ \E id \in ActivityIds, u \in UpdateInputs :
          UpdateActivityReadFails(id, u)
    \/ \E id \in ActivityIds : DeleteActivityReadFails(id)

\* the cache keys the history calls clear, and one they leave alone
HistoryKeys == {"history_companies", "history_contact_k1", "activities"}

\* the targets the history calls are given
HistoryTargets == {Undef, "", "c1"}

\* history calls on their own, between cache fills
NextHistory ==
    \/ \E k \in HistoryKeys, v \in {<<"r1">>} : SetCache(k, v)
    \/ \E t \in HistoryTargets, fails \in BOOLEAN :
          Within(LogCompanyHistory(t, "note", "Notatka", "", fails),
                 MaxHistory)
    \/ \E t \in HistoryTargets, fails \in BOOLEAN :
          Within(LogContactHistory(IF t = "c1" THEN "k1" ELSE t, "note",
                                   "Notatka", "", fails), MaxHistory)

\* the three calls with every awaited request free to fail
NextPartial ==
    \/ \E p \in PartialInputs : CreateActivityStart(p)
    \/ \E id \in ActivityIds, u \in UpdateInputs : UpdateActivityStart(id, u)
    \/ \E id \in ActivityIds : DeleteActivityStart(id)
    \/ RequestFails
    \/ WriteServed
    \/ Within(CompanyServed, MaxHistory)
    \/ Within(ContactServed, MaxHistory)

NextSessions ==
    \/ \E s \in Sessions, useCache \in BOOLEAN :
          LoadCompaniesStart(s, useCache)
    \/ \E s \in Sessions : ValuesGetServed(s)
    \/ \E s \in Sessions : ValuesGetFails(s)
    \/ \E s \in Sessions : LoadCompaniesReturns(s)
    \/ \E s \in Sessions : SaveCompanyServed(s)
    \/ \E s \in Sessions : SaveCompanyReturns(s)
    \/ \E d \in ClockSteps : Tick(d)

(***************************************************************************)
(* AIService.generateContent and its response cache                        *)
(*                                                                         *)
(* Text is a sequence of one-character strings, so that charCodeAt can be  *)
(* applied to it.  A temperature is written in tenths.  A response carries *)
(* the triple it was generated for.                                        *)
(***************************************************************************)
\* str.charCodeAt(i) for the characters the prompts are made of
CharCode(c) ==
    CASE c = "a" -> 97
      [] c = "b" -> 98
      [] c = "c" -> 99
      [] c = "|" -> 124
      [] c = "." -> 46
      [] c = "0" -> 48
      [] c = "1" -> 49
      [] c = "7" -> 55

\* the digits of Number.prototype.toString(36)
Digit36 ==
    <<"0", "1", "2", "3", "4", "5", "6", "7", "8", "9", "a", "b", "c", "d",
      "e", "f", "g", "h", "i", "j", "k", "l", "m", "n", "o", "p", "q", "r",
      "s", "t", "u", "v", "w", "x", "y", "z">>

\* n.toString(36) of a number n >= 0
RECURSIVE Magnitude36(_)
Magnitude36(n) ==
    IF n < 36 THEN Digit36[n + 1]
    ELSE Magnitude36(n \div 36) \o Digit36[(n % 36) + 1]

\* hash.toString(36) of a 32-bit integer; the least one has no negation in
\* 32 bits
ToString36(n) ==
    IF n = -2147483647 - 1 THEN "-zik0zk"
    ELSE IF n < 0 THEN "-" \o Magnitude36(-n)
    ELSE Magnitude36(n)

\* `${temperature}` of a temperature given in tenths, 0 .. 10
TemperatureText(t) ==
    IF t % 10 = 0 THEN <<Digit36[(t \div 10) + 1]>>
    ELSE <<Digit36[(t \div 10) + 1], ".", Digit36[(t % 10) + 1]>>

\* hash = ((hash << 5) - hash) + char; hash = hash & hash: 31 * hash + char
\* kept to 32 bits, computed on the two 16-bit halves of hash
HashStep(h, code) ==
    LET lo == h.lo * 31 + code
        hi == h.hi * 31 + (lo \div 65536)
    IN  [hi |-> hi % 65536, lo |-> lo % 65536]

\* the signed 32-bit integer with the halves of h
ToInt32(h) ==
    IF h.hi >= 32768 THEN (h.hi - 65536) * 65536 + h.lo
    ELSE h.hi * 65536 + h.lo

\* the loop of simpleHash from character i on
RECURSIVE HashFrom(_, _, _)
HashFrom(str, i, h) ==
    IF i > Len(str) THEN h
    ELSE HashFrom(str, i + 1, HashStep(h, CharCode(str[i])))

\* simpleHash(str)
simpleHash(str) == ToString36(ToInt32(HashFrom(str, 1, [hi |-> 0, lo |-> 0])))

\* generateCacheKey(prompt, systemPrompt, temperature)
generateCacheKey(prompt, systemPrompt, temperature) ==
    simpleHash(systemPrompt \o <<"|">> \o prompt \o <<"|">>
               \o TemperatureText(temperature))

\* the API key alone decides
AiDisabledKeyOnly(a) == a.apiKey \in {"null", ""}

\* !this.enabled || !this.API_KEY
AiDisabled(a) == ~a.enabled \/ a.apiKey \in {"null", ""}

\* cleanExpiredCache() at time t
CleanExpiredCache(c, t) ==
    [k \in {x \in DOMAIN c : AiFresh(c[x], t, AI_CACHE_TTL)} |-> c[k]]

\* AIService.init(apiKey, provider)
AiInit(apiKey, provider) ==
    /\ ai' = IF Falsy(apiKey)
             THEN [ai EXCEPT !.enabled = FALSE,
                             !.init = apiKey,
                             !.gen = NoGen]
             ELSE [ai EXCEPT !.apiKey = apiKey,
                             !.provider = provider,
                             !.enabled = TRUE,
                             !.cache = CleanExpiredCache(ai.cache, now),
                             !.init = apiKey,
                             !.gen = NoGen]
    /\ UNCHANGED <<cacheVars, retry, storeVars, call, remote, io, batch,
                   fields, valueVars, settings, ui, peer>>

\* AIService.generateContent(prompt, systemPrompt, temperature,
\* forceRefresh); reply is what the provider does if it is called: "text" a
\* response, "empty" an empty response, "fail" an error
GenerateContent(prompt, systemPrompt, temperature, forceRefresh, reply) ==
    LET args == <<systemPrompt, prompt, temperature>>
        key == generateCacheKey(prompt, systemPrompt, temperature)
        cached == IF forceRefresh THEN Miss
                  ELSE AiGetResult(ai.cache, key, now, AI_CACHE_TTL)
        looked == IF forceRefresh THEN ai.cache
                  ELSE AiAfterGet(ai.cache, key, now, AI_CACHE_TTL)
        response == [text |-> IF reply = "empty" THEN "" ELSE "odp",
                     for |-> args]
        gen == [kind |-> "none", args |-> args, force |-> forceRefresh,
                response |-> <<>>, contacted |-> "none"]
    IN  /\ ai' =
            IF AiDisabled(ai)
            THEN [ai EXCEPT !.gen = [gen EXCEPT !.kind = "disabled"]]
            ELSE IF cached.hit /\ cached.value.text # ""
            THEN [ai EXCEPT !.cache = looked,
                            !.gen = [gen EXCEPT !.kind = "cached",
                                                !.response = cached.value]]
            ELSE IF reply = "fail"
            THEN [ai EXCEPT !.cache = looked,
                            !.gen = [gen EXCEPT !.kind = "error",
                                                !.contacted = ai.provider]]
            ELSE [ai EXCEPT !.cache = MapSet(looked, key,
                                             [value |-> response,
                                              timestamp |-> now]),
                            !.gen = [gen EXCEPT !.kind = "fresh",
                                                !.response = response,
                                                !.contacted = ai.provider]]
        /\ UNCHANGED <<cacheVars, retry, storeVars, call, remote, io, batch,
                       fields, valueVars, settings, ui, peer>>

\* the system prompts and prompts given to generateContent
Requests ==
    {[systemPrompt |-> <<"a", "|", "b">>, prompt |-> <<"c">>],
     [systemPrompt |-> <<"a">>, prompt |-> <<"b", "|", "c">>],
     [systemPrompt |-> <<"a">>, prompt |-> <<"c">>]}

\* the temperatures, in tenths
Temperatures == {7}

\* the API keys and providers given to init
ApiKeys == {"", "klucz"}
Providers == {"gemini", "openai", "llm7"}

\* the clock moves by a millisecond or by the TTL of the response cache
AiClockSteps == {1, AI_CACHE_TTL}

NextAi ==
    \/ \E k \in ApiKeys, p \in Providers : AiInit(k, p)
    \/ \E r \in Requests, t \in Temperatures, f \in BOOLEAN,
          reply \in {"text", "empty", "fail"} :
          GenerateContent(r.prompt, r.systemPrompt, t, f, reply)
    \/ \E d \in AiClockSteps : Tick(d)

NextBoth ==
    \/ \E key \in CacheKeys, value \in CacheValues : BothSet(key, value)
    \/ \E key \in CacheKeys : BothGet(key)
    \/ \E d \in ClockSteps : Tick(d)

Next ==
    \/ NextAi
    \/ NextDisableFails
    \/ NextReadFails
    \/ NextMalformed
    \/ NextHistory
    \/ NextPartial
    \/ NextSessions
    \/ NextBoth
    \/ NextUi
    \/ NextValues
    \/ NextSettings
    \/ NextFields
    \/ NextDecode
    \/ NextQueries
    \/ NextTags
    \/ NextBatch
    \/ NextCache
    \/ NextRetry
    \/ NextActivities
    \/ NextDeep
    \/ NextValidate
    \/ NextRemote

SpecCache == Init /\ [][NextCache]_vars
SpecRetry == Init /\ [][NextRetry]_vars
SpecCreateUpdate == Init /\ [][NextCreateUpdate]_vars
SpecActivities == Init /\ [][NextActivities]_vars
SpecDeep == Init /\ [][NextDeep]_vars
SpecValidate == InitValidate /\ [][NextValidate]_vars
SpecRemote == InitRemote /\ [][NextRemote]_vars
SpecBatch == InitBatch /\ [][NextBatch]_vars
SpecTags == Init /\ [][NextTags]_vars
SpecQueries == InitQueries /\ [][NextQueries]_vars
SpecDecode == InitDecode /\ [][NextDecode]_vars
SpecFields == InitFields /\ [][NextFields]_vars
SpecDisableFails == InitFields /\ [][NextDisableFails]_vars
SpecSettings == InitSettings /\ [][NextSettings]_vars
SpecValues == InitValues /\ [][NextValues]_vars
SpecUi == InitUi /\ [][NextUi]_vars
SpecBoth == Init /\ [][NextBoth]_vars
SpecSessions == Init /\ [][NextSessions]_vars
SpecPartial == Init /\ [][NextPartial]_vars
SpecHistory == Init /\ [][NextHistory]_vars
SpecReadFails == Init /\ [][NextReadFails]_vars
SpecMalformed == InitMalformed /\ [][NextMalformed]_vars
SpecAi == Init /\ [][NextAi]_vars
Spec == Init /\ [][Next]_vars

(***************************************************************************)
(* Claims about the cache                                                  *)
(***************************************************************************)
\* C3: after setCache(k, v) at time t with no later set or clear of k,
\* getCache(k) at time t' returns v when t' - t < TTL and is a miss that
\* evicts the entry when t' - t >= TTL.
C3_GetAfterSet ==
    lastGet.key \in DOMAIN setLog =>
        LET s == setLog[lastGet.key] IN
        IF lastGet.at - s.at < CACHE_TTL
        THEN lastGet.result = Hit(s.value)
        ELSE lastGet.result = Miss /\ lastGet.key \notin DOMAIN cache

\* C4: getCache never returns a value whose entry is older than the TTL
\* (now - timestamp > TTL); what it returns is the value last set for the
\* key; a key cleared by clearCache(key) or clearCache() is a miss until it
\* is set again.
C4_NeverStale ==
    lastGet.key # "" =>
        /\ lastGet.result.hit =>
            /\ lastGet.key \in DOMAIN setLog
            /\ lastGet.result.value = setLog[lastGet.key].value
            /\ ~(lastGet.at - setLog[lastGet.key].at > CACHE_TTL)
        /\ lastGet.key \notin DOMAIN setLog => lastGet.result = Miss

\* a getCache of a key set more than TTL ago has just returned
C4_Witness ==
    /\ lastGet.key \in DOMAIN setLog
    /\ lastGet.at - setLog[lastGet.key].at > CACHE_TTL
    /\ lastGet.result = Miss

(***************************************************************************)
(* Claims about retryRequest                                               *)
(***************************************************************************)
RECURSIVE SumSeq(_)
SumSeq(s) == IF s = <<>> THEN 0 ELSE Head(s) + SumSeq(Tail(s))

RECURSIVE SumBackoff(_)
\* sum of RETRY_DELAY * 2^i for i in 0 .. top
SumBackoff(top) ==
    IF top < 0 THEN 0 ELSE RETRY_DELAY * 2 ^ top + SumBackoff(top - 1)

\* C5: for N >= 1, a run whose fn fails N-1 times and then succeeds returns
\* the success value; a run whose fn fails N times fails with the error of
\* the Nth invocation; fn is never invoked again after a success.
C5_RetryOutcome ==
    /\ retry.returned # <<>> =>
        /\ retry.pc = "done"
        /\ Len(retry.returned) = 1
        /\ retry.calls = Len(retry.thrown) + 1
        /\ retry.outcome = [kind |-> "value", val |-> retry.returned[1]]
    /\ (retry.pc = "done" /\ retry.max >= 1 /\ retry.returned = <<>>) =>
        /\ Len(retry.thrown) = retry.max
        /\ retry.calls = retry.max
        /\ retry.outcome = [kind |-> "error", val |-> retry.thrown[retry.max]]

\* fn failed N-1 = 2 times and then succeeded
C5_Witness ==
    /\ retry.pc = "done"
    /\ retry.max = 3
    /\ Len(retry.thrown) = 2
    /\ retry.thrown[1] # retry.thrown[2]
    /\ retry.returned # <<>>

\* C6: the wait after the failure of attempt index i is RETRY_DELAY * 2^i; a
\* wait occurs only when a further attempt follows; a run that fails N
\* times has waited the sum of RETRY_DELAY * 2^i for i in 0 .. N-2.
C6_Backoff ==
    /\ \A j \in 1 .. Len(retry.waits) :
           retry.waits[j] = RETRY_DELAY * 2 ^ (j - 1)
    /\ retry.pc = "wait" =>
        /\ Len(retry.waits) = retry.calls
        /\ retry.i + 1 < retry.max
    /\ (retry.pc = "done" /\ retry.calls >= 1) =>
        Len(retry.waits) = retry.calls - 1
    /\ (retry.pc = "done" /\ retry.outcome.kind = "error") =>
        /\ Len(retry.waits) = retry.max - 1
        /\ SumSeq(retry.waits) = SumBackoff(retry.max - 2)

\* a run with N = 3 has failed three times after waiting 1000 and 2000
C6_Witness ==
    /\ retry.pc = "done"
    /\ retry.outcome.kind = "error"
    /\ retry.max = 3
    /\ retry.waits = <<1000, 2000>>

\* C37: for every maximum attempt count n, n <= 0 included, a finished run
\* of retryRequest has invoked fn at least once and at most max(n, 1) times,
\* and its outcome is a value returned by fn or the error thrown by fn's
\* last invocation.
C37_EveryCountInvokesFn ==
    retry.pc = "done" =>
        /\ retry.calls >= 1
        /\ retry.calls <= (IF retry.max >= 1 THEN retry.max ELSE 1)
        /\ \/ /\ retry.outcome.kind = "value"
              /\ retry.returned # <<>>
              /\ retry.outcome.val = retry.returned[Len(retry.returned)]
           \/ /\ retry.outcome.kind = "error"
              /\ retry.thrown # <<>>
              /\ retry.outcome.val = retry.thrown[Len(retry.thrown)]

\* C38: generateContent never returns a cached response that was generated
\* for another (systemPrompt, prompt, temperature) triple; two distinct
\* triples never share a cache entry.
C38_CachedForSameTriple ==
    ai.gen.kind = "cached" => ai.gen.response.for = ai.gen.args

\* C39: after init with an empty API key every generateContent call fails
\* without contacting a provider and without a cached response, until an init
\* with a non-empty key; a call with forceRefresh = true never returns a
\* cached response; a failed provider call stores nothing in the response
\* cache.
C39_DisabledForcedFailed ==
    /\ [](/\ (ai.init = "" /\ ai.gen.kind # "none") =>
              /\ ai.gen.kind = "disabled"
              /\ ai.gen.contacted = "none"
              /\ ai.gen.response = <<>>
          /\ ai.gen.force =>
              ai.gen.kind \in {"none", "disabled", "fresh", "error"}
          /\ (ai.gen.force /\ ai.gen.kind = "fresh") =>
              /\ ai.gen.contacted = ai.provider
              /\ ai.gen.response.for = ai.gen.args)
    /\ [][(ai' # ai /\ ai'.gen.kind \in {"disabled", "error"}) =>
            \A k \in DOMAIN ai'.cache :
                /\ k \in DOMAIN ai.cache
                /\ ai'.cache[k] = ai.cache[k]]_vars

\* a call made after init('') that followed a working init, for a triple
\* whose response is in the cache and fresh
C39_Witness ==
    /\ ai.init = ""
    /\ ai.apiKey = "klucz"
    /\ ai.gen.kind = "disabled"
    /\ LET key == generateCacheKey(ai.gen.args[2], ai.gen.args[1],
                                   ai.gen.args[3])
       IN  /\ key \in DOMAIN ai.cache
           /\ AiFresh(ai.cache[key], now, AI_CACHE_TTL)
           /\ ai.cache[key].value.text # ""

(***************************************************************************)
(* Claims about the activities                                             *)
(***************************************************************************)
\* first position of rows whose id cell is id, 0 when there is none
RowHolding(rows, id) ==
    IF \E p \in 1 .. Len(rows) : rows[p].id = id
    THEN CHOOSE p \in 1 .. Len(rows) :
            /\ rows[p].id = id
            /\ \A q \in 1 .. p - 1 : rows[q].id # id
    ELSE 0

\* what a loadActivities() issued in this state returns
LoadedNow == LoadActivitiesResult(cache, sheet, TRUE, now)

\* C1: a successful updateActivity(id, updates) overwrites exactly the row
\* that holds the activity with that id, writes the merged record there and
\* leaves every other row unchanged.
C1_UpdateSamePosition ==
    (lastOp.op = "update" /\ lastOp.ok) =>
        LET p == RowHolding(lastOp.before, lastOp.id) IN
        /\ p # 0
        /\ sheet = [lastOp.before EXCEPT
                        ![p] = [f \in Fields |-> lastOp.result[f]]]

\* C2: a successful deleteActivity(id) removes the activity with that id
\* from the following loadActivities results and removes no other activity.
C2_DeleteRemovesOnlyThat ==
    (lastOp.op = "delete" /\ lastOp.ok) =>
        LET Other(a) == a.id # lastOp.id IN
        LoadedNow = SelectSeq(MapRows(lastOp.before), Other)

\* C7: createActivity(params) followed by loadActivities and a lookup by the
\* returned id yields a record equal, field by field, to the returned one.
C7_CreateRoundTrip ==
    (lastOp.op = "create" /\ lastOp.ok) =>
        LET i == FindIndex(LoadedNow, lastOp.id) IN
        /\ i # -1
        /\ LoadedNow[i + 1] = lastOp.result

C9_CompleteTwice ==
    (/\ lastOp.op = "update" /\ lastOp.ok /\ lastOp.again
     /\ lastOp.updates = [status |-> "completed"]) =>
        sheet = lastOp.before

\* C10: every activity row has a non-empty companyId or a non-empty
\* contactId; an update whose merged record has neither is rejected and
\* leaves the sheet unchanged.
C10_LinkInvariant ==
    /\ \A p \in 1 .. Len(sheet) :
          sheet[p] # BlankRow =>
              sheet[p].companyId # "" \/ sheet[p].contactId # ""
    /\ (/\ lastOp.op = "update" /\ lastOp.index # -1
        /\ Falsy(lastOp.result.companyId)
        /\ Falsy(lastOp.result.contactId)) =>
            ~lastOp.ok /\ sheet = lastOp.before

\* an update that blanks both links of a stored activity has been rejected
C10_Witness ==
    /\ lastOp.op = "update"
    /\ ~lastOp.ok
    /\ lastOp.error = "validation"
    /\ lastOp.index # -1
    /\ lastOp.updates = [companyId |-> "", contactId |-> ""]
    /\ sheet = lastOp.before
    /\ sheet # <<>>

\* C11: when validateActivity rejects the input of createActivity or the
\* merged record of updateActivity, the call fails with one error whose
\* message is the validation errors joined with ", ", and the activities
\* sheet and both history sheets are left as they were.
C11_ValidationRejects ==
    /\ (lastOp.op \in {"create", "update"} /\ lastOp.errors # <<>>) =>
        /\ ~lastOp.ok
        /\ lastOp.error = "validation"
        /\ lastOp.message =
              (CASE Len(lastOp.errors) = 1 -> lastOp.errors[1]
                 [] Len(lastOp.errors) = 2 ->
                      lastOp.errors[1] \o ", " \o lastOp.errors[2]
                 [] Len(lastOp.errors) = 3 ->
                      lastOp.errors[1] \o ", " \o lastOp.errors[2]
                          \o ", " \o lastOp.errors[3]
                 [] OTHER -> "")
        /\ sheet = lastOp.before
        /\ companyHistory = lastOp.beforeCompany
        /\ contactHistory = lastOp.beforeContact
    /\ lastOp.error = "validation" => lastOp.errors # <<>>

\* a createActivity that violates three rules has been rejected with the
\* three messages in one, on a sheet that holds an activity
C11_Witness ==
    /\ lastOp.op = "create"
    /\ ~lastOp.ok
    /\ lastOp.message =
          "Nieprawidlowy typ aktywnosci: FAX, "
          \o "Aktywnosc musi byc powiazana z firma lub kontaktem, "
          \o "Nieprawidlowy format daty"
    /\ sheet # <<>>
    /\ sheet = lastOp.before
    /\ companyHistory # <<>>

(***************************************************************************)
(* Claims about validateActivity                                           *)
(***************************************************************************)
\* the message of each rule the activity a violates
ViolatedRules(a) ==
    {m \in {"type", "title", "date", "link", "format"} :
        CASE m = "type" -> a.type \notin TypeIds
          [] m = "title" -> /\ a.type \in TypeIds
                            /\ typeMeta[a.type].requiresTitle
                            /\ a.title \in {Undef, ""}
          [] m = "date" -> /\ a.type \in TypeIds
                           /\ typeMeta[a.type].requiresDate
                           /\ a.date \in {Undef, ""}
          [] m = "link" -> /\ a.companyId \in {Undef, ""}
                           /\ a.contactId \in {Undef, ""}
          [] m = "format" -> a.date \notin {Undef, ""} /\ ~DateParses(a.date)}

RuleMessage(m, a) ==
    CASE m = "type" -> "Nieprawidlowy typ aktywnosci: " \o a.type
      [] m = "title" -> "Tytul jest wymagany"
      [] m = "date" -> "Data jest wymagana"
      [] m = "link" -> "Aktywnosc musi byc powiazana z firma lub kontaktem"
      [] m = "format" -> "Nieprawidlowy format daty"

\* C12: the error list of validateActivity has exactly one entry for each
\* rule the activity violates (unknown type; required title empty; required
\* date empty; no companyId and no contactId; date present but unparsable)
\* and no other entry, and valid is true exactly when no rule is violated.
C12_EveryViolatedRule ==
    call.fn = "validateActivity" =>
        LET a == call.activity
            R == ViolatedRules(a)
        IN /\ Len(call.errors) = Cardinality(R)
           /\ \A m \in R :
                 \E j \in 1 .. Len(call.errors) :
                     call.errors[j] = RuleMessage(m, a)
           /\ \A j \in 1 .. Len(call.errors) :
                 \E m \in R : call.errors[j] = RuleMessage(m, a)
           /\ call.valid <=> R = {}

\* an activity that violates three rules at once has been validated
C12_Witness ==
    /\ call.fn = "validateActivity"
    /\ Len(call.errors) = 3
    /\ call.activity.type = "EMAIL"
    /\ ~call.valid

\* an activity that violates no rule has been validated
C12_WitnessValid ==
    /\ call.fn = "validateActivity"
    /\ call.valid
    /\ call.activity.companyId = "c1"

(***************************************************************************)
(* Claims about the failures and the history of the activity operations    *)
(***************************************************************************)
\* C13: updateActivity(id, ...) and deleteActivity(id) with an id that no
\* row of the activities sheet carries fail with the not-found error and
\* leave the activities sheet and both history sheets as they were.
C13_NotFound ==
    (/\ lastOp.op \in {"update", "delete"}
     /\ \A p \in 1 .. Len(lastOp.before) : lastOp.before[p].id # lastOp.id) =>
        /\ ~lastOp.ok
        /\ lastOp.error = "notfound"
        /\ lastOp.message = "Aktywnosc nie znaleziona"
        /\ sheet = lastOp.before
        /\ companyHistory = lastOp.beforeCompany
        /\ contactHistory = lastOp.beforeContact

\* a deleteActivity of an id deleted before has failed on a sheet that
\* still holds another activity
C13_Witness ==
    /\ lastOp.op = "delete"
    /\ ~lastOp.ok
    /\ lastOp.error = "notfound"
    /\ lastOp.id = "id_2"
    /\ sheet # <<>>
    /\ sheet = lastOp.before
    /\ \E j \in 1 .. Len(contactHistory) :
          contactHistory[j].meta = "activity_deleted:id_2"

\* an updateActivity of an id never handed out has failed likewise
C13_WitnessUpdate ==
    /\ lastOp.op = "update"
    /\ ~lastOp.ok
    /\ lastOp.error = "notfound"
    /\ lastOp.id = "id_0"
    /\ sheet # <<>>

\* h is h0 followed by exactly one entry for target tagged tag when target
\* is non-empty, and is h0 when it is empty
OneEntryIffLinked(h, h0, target, tag) ==
    IF target \in {"", Undef}
    THEN h = h0
    ELSE /\ Len(h) = Len(h0) + 1
         /\ SubSeq(h, 1, Len(h0)) = h0
         /\ h[Len(h)].target = target
         /\ h[Len(h)].type = "event"
         /\ h[Len(h)].meta = tag

\* C14: each successful createActivity, updateActivity and deleteActivity
\* appends exactly one company-history entry iff the activity's companyId
\* is non-empty and exactly one contact-history entry iff its contactId is
\* non-empty, tagged activity_created:<id>, activity_updated:<id> or
\* activity_deleted:<id> with the activity's id; for delete the links and
\* the content are those of the activity as stored before the delete.
C14_HistoryEntries ==
    (lastOp.ok /\ lastOp.op \in {"create", "update", "delete"}) =>
        LET a == IF lastOp.op = "delete"
                 THEN RowToActivity(
                          lastOp.before[RowHolding(lastOp.before, lastOp.id)])
                 ELSE lastOp.result
            tag == CASE lastOp.op = "create" -> "activity_created:" \o lastOp.id
                     [] lastOp.op = "update" -> "activity_updated:" \o lastOp.id
                     [] lastOp.op = "delete" -> "activity_deleted:" \o lastOp.id
        IN /\ OneEntryIffLinked(companyHistory, lastOp.beforeCompany,
                                a.companyId, tag)
           /\ OneEntryIffLinked(contactHistory, lastOp.beforeContact,
                                a.contactId, tag)
           /\ (lastOp.op = "delete" /\ a.companyId # "") =>
                 companyHistory[Len(companyHistory)].content =
                     "Usunieto " \o ToLowerCase(TypeLabel(a.type)) \o ": "
                         \o a.title

\* a deleteActivity of an activity linked to a company and to a contact has
\* appended one entry to each history sheet
C14_Witness ==
    /\ lastOp.op = "delete"
    /\ lastOp.ok
    /\ Len(companyHistory) = Len(lastOp.beforeCompany) + 1
    /\ Len(contactHistory) = Len(lastOp.beforeContact) + 1
    /\ companyHistory[Len(companyHistory)].meta = "activity_deleted:id_1"
    /\ contactHistory[Len(contactHistory)].meta = "activity_deleted:id_1"

\* an updateActivity of an activity linked to a contact only has appended
\* one contact entry and no company entry
C14_WitnessUpdate ==
    /\ lastOp.op = "update"
    /\ lastOp.ok
    /\ companyHistory = lastOp.beforeCompany
    /\ Len(contactHistory) = Len(lastOp.beforeContact) + 1
    /\ contactHistory[Len(contactHistory)].meta = "activity_updated:id_1"

(***************************************************************************)
(* Claims about failing remote reads                                       *)
(***************************************************************************)
\* the call of io has ended after a remote read that failed last
EndedOnFailedRead ==
    /\ io.state \in {"returned", "failed"}
    /\ io.attempts # <<>>
    /\ io.attempts[Len(io.attempts)] = "failed"

\* C15: in every DataService load, loadActivities and loadUserPreferences
\* included, a failing remote call is attempted again, after the backoff
\* wait, until one succeeds or MAX_RETRIES attempts have been made.
C15_EveryReadRetried ==
    (io.state \in {"returned", "failed"} /\ io.attempts # <<>>) =>
        /\ \/ io.attempts[Len(io.attempts)] = "ok"
           \/ Len(io.attempts) = MAX_RETRIES
        /\ \A j \in 1 .. Len(io.attempts) - 1 : io.attempts[j] = "failed"
        /\ Len(retry.waits) = Len(io.attempts) - 1

C16_WitnessLater ==
    /\ io.prev.degraded
    /\ io.prev.op = "loadActivities"
    /\ io.op = "loadActivities"
    /\ io.useCache
    /\ io.state = "returned"
    /\ io.attempts = <<"ok">>
    /\ Len(io.result) = 1

(***************************************************************************)
(* Claims about loadAllData                                                *)
(***************************************************************************)
\* C17: loadAllData has its four reads in flight together (none is held
\* back until another has resolved), resolves only when all four have
\* resolved, with their four results, and when any one of them rejects
\* after exhausting its retries it rejects and returns no result.
C17_AllOrNothing ==
    /\ batch.state # "none" =>
          \A r \in BatchReads : batch.reads[r].pc # "idle"
    /\ batch.state = "resolved" =>
          /\ \A r \in BatchReads :
                /\ batch.reads[r].pc = "done"
                /\ batch.reads[r].outcome.kind = "value"
          /\ DOMAIN batch.result = BatchReads
          /\ batch.result["companies"] = CompaniesOf(remote["Firmy"])
          /\ batch.result["contacts"] = ContactsOf(remote["Kontakty"])
          /\ batch.result["companyHistory"] = HistoryOf(companyHistory)
          /\ batch.result["contactHistory"] = HistoryOf(contactHistory)
    /\ (\E r \in BatchReads :
           /\ batch.reads[r].pc = "done"
           /\ batch.reads[r].outcome.kind = "error") =>
          /\ batch.state = "rejected"
          /\ DOMAIN batch.result = {}
          /\ \E r \in BatchReads :
                /\ batch.reads[r].outcome = [kind |-> "error",
                                             val |-> batch.error]
                /\ batch.reads[r].calls = MAX_RETRIES
    /\ batch.state = "rejected" =>
          \E r \in BatchReads : batch.reads[r].outcome.kind = "error"

\* one read has failed three times while the other three have resolved,
\* and loadAllData has rejected
C17_Witness ==
    /\ batch.state = "rejected"
    /\ batch.error = "e_contacts"
    /\ batch.reads["contacts"].calls = MAX_RETRIES
    /\ \A r \in BatchReads \ {"contacts"} :
          batch.reads[r].outcome.kind = "value"
    /\ DOMAIN batch.values = BatchReads \ {"contacts"}

\* the four remote reads are in flight at the same time
C17_WitnessConcurrent ==
    /\ batch.state = "pending"
    /\ \A r \in BatchReads : batch.reads[r].pc = "call"

\* loadAllData has resolved after a read that failed twice succeeded
C17_WitnessResolved ==
    /\ batch.state = "resolved"
    /\ batch.reads["companyHistory"].calls = MAX_RETRIES

(***************************************************************************)
(* Claims about cache invalidation on write                                *)
(***************************************************************************)
\* C18: every successful write invalidates the caches of the dataset it
\* changes: a cached load, under the dataset-wide key or under a
\* per-entity key, never returns a value cached before a write; what it
\* returns is what the sheet holds.
C18_NoStaleCachedLoad ==
    (/\ io.op \in TagLoadOps
     /\ io.state = "returned"
     /\ io.source = "cache") =>
        io.result = LoadValue(io.op, io.arg)

(***************************************************************************)
(* Claims about the date queries and applyFilters                          *)
(***************************************************************************)
\* the number of positions of list whose element satisfies Keep
CountOf(list, Keep(_)) == Cardinality({p \in 1 .. Len(list) : Keep(list[p])})

\* out holds exactly the elements of list that satisfy Keep, each once
ExactlyThose(out, list, Keep(_)) ==
    /\ Len(out) = CountOf(list, Keep)
    /\ \A p \in 1 .. Len(list) :
          Keep(list[p]) <=> \E j \in 1 .. Len(out) : out[j] = list[p]
    /\ \A j \in 1 .. Len(out) : \E p \in 1 .. Len(list) : out[j] = list[p]

\* the dates of the model as the strings compare: "" first, then by year,
\* month, day and time of day
Before(d, e) ==
    <<d, e>> \in
        {<<"", "2024-01-15">>,
         <<"", "2024-02-20">>,
         <<"", "2024-03-01">>,
         <<"", "2024-03-01T12:00:00.000Z">>,
         <<"", "2024-03-02">>,
         <<"2024-01-15", "2024-02-20">>,
         <<"2024-01-15", "2024-03-01">>,
         <<"2024-01-15", "2024-03-01T12:00:00.000Z">>,
         <<"2024-01-15", "2024-03-02">>,
         <<"2024-02-20", "2024-03-01">>,
         <<"2024-02-20", "2024-03-01T12:00:00.000Z">>,
         <<"2024-02-20", "2024-03-02">>,
         <<"2024-03-01", "2024-03-01T12:00:00.000Z">>,
         <<"2024-03-01", "2024-03-02">>,
         <<"2024-03-01T12:00:00.000Z", "2024-03-02">>}

\* C19: getUpcomingActivities returns exactly the loaded activities with
\* status planned and date >= today, restricted to companyId and contactId
\* when given, in ascending date order; getOverdueActivities returns
\* exactly those with status planned and date < today, in ascending date
\* order; with no foreign-key filter every planned activity is in exactly
\* one of the two results.
C19_UpcomingOverdue ==
    /\ call.fn = "getUpcomingActivities" =>
        LET Wanted(a) ==
                /\ a.status = "planned"
                /\ a.date = "2024-03-01" \/ Before("2024-03-01", a.date)
                /\ call.filters.companyId \in {Undef, ""}
                       \/ a.companyId = call.filters.companyId
                /\ call.filters.contactId \in {Undef, ""}
                       \/ a.contactId = call.filters.contactId
        IN /\ call.activities = MapRows(sheet)
           /\ ExactlyThose(call.out, call.activities, Wanted)
           /\ \A i, j \in 1 .. Len(call.out) :
                 i < j => ~Before(call.out[j].date, call.out[i].date)
    /\ call.fn = "getOverdueActivities" =>
        LET Wanted(a) ==
                a.status = "planned" /\ Before(a.date, "2024-03-01")
        IN /\ call.activities = MapRows(sheet)
           /\ ExactlyThose(call.out, call.activities, Wanted)
           /\ \A i, j \in 1 .. Len(call.out) :
                 i < j => ~Before(call.out[j].date, call.out[i].date)
    /\ (/\ call.fn = "getOverdueActivities"
        /\ call.previous.fn = "getUpcomingActivities"
        /\ call.previous.filters.companyId = Undef
        /\ call.previous.filters.contactId = Undef) =>
        \A p \in 1 .. Len(call.activities) :
            call.activities[p].status = "planned" =>
                (\E j \in 1 .. Len(call.out) :
                     call.out[j] = call.activities[p])
                # (\E j \in 1 .. Len(call.previous.out) :
                       call.previous.out[j] = call.activities[p])

\* getUpcomingActivities() has returned two activities out of three, the
\* one dated today first, from a sheet that lists them in the other order
C19_Witness ==
    /\ call.fn = "getUpcomingActivities"
    /\ call.filters.companyId = Undef
    /\ Len(call.activities) = 3
    /\ Len(call.out) = 2
    /\ call.out[1].date = "2024-03-01"
    /\ call.out[1].id = "id_3"
    /\ call.out[2].date = "2024-03-02"
    /\ call.out[2].id = "id_1"

\* getOverdueActivities() after getUpcomingActivities() on a sheet of three
\* planned activities: one is overdue, two were upcoming
C19_WitnessPartition ==
    /\ call.fn = "getOverdueActivities"
    /\ call.previous.fn = "getUpcomingActivities"
    /\ call.previous.filters.companyId = Undef
    /\ call.previous.filters.contactId = Undef
    /\ Len(call.out) = 1
    /\ Len(call.previous.out) = 2
    /\ \A p \in 1 .. Len(call.activities) :
          call.activities[p].status = "planned"

\* C20: applyFilters(activities, filters) returns exactly the activities
\* that satisfy every supplied filter (type equal, status equal, date >=
\* dateFrom, date <= dateTo, as strings), sorted by date descending, and
\* leaves the list it was given as it was; an absent filter excludes
\* nothing.
C20_ApplyFilters ==
    call.fn = "applyFilters" =>
        LET Given(f) == /\ f \in DOMAIN call.filters
                        /\ call.filters[f] \notin {Undef, ""}
            Wanted(a) ==
                /\ Given("type") => a.type = call.filters.type
                /\ Given("status") => a.status = call.filters.status
                /\ Given("dateFrom") =>
                      \/ a.date = call.filters.dateFrom
                      \/ Before(call.filters.dateFrom, a.date)
                /\ Given("dateTo") =>
                      \/ a.date = call.filters.dateTo
                      \/ Before(a.date, call.filters.dateTo)
        IN /\ ExactlyThose(call.out, call.activities, Wanted)
           /\ \A i, j \in 1 .. Len(call.out) :
                 i < j => ~Before(call.out[i].date, call.out[j].date)
           /\ call.after = call.activities

\* applyFilters with a status and both date bounds set to today has kept
\* one activity of three; the list it was given is unchanged
C20_Witness ==
    /\ call.fn = "applyFilters"
    /\ call.filters =
          [type |-> Undef, status |-> "planned", dateFrom |-> "2024-03-01",
           dateTo |-> "2024-03-01"]
    /\ Len(call.activities) = 3
    /\ Len(call.out) = 1
    /\ call.out[1].date = "2024-03-01"
    /\ call.after = call.activities

\* applyFilters with no filter has returned three activities newest first
\* from a list that held them oldest first
C20_WitnessSorted ==
    /\ call.fn = "applyFilters"
    /\ call.filters = NoFilters
    /\ Len(call.activities) = 3
    /\ Len(call.out) = 3
    /\ call.out[1] = call.activities[3]
    /\ call.out[3] = call.activities[1]
    /\ call.out[1].date # call.out[3].date

(***************************************************************************)
(* Claims about getActivityStats                                           *)
(***************************************************************************)
RECURSIVE SumOf(_)
\* the sum of the values of a function with a finite domain
SumOf(f) ==
    IF DOMAIN f = {} THEN 0
    ELSE LET k == CHOOSE x \in DOMAIN f : TRUE
         IN f[k] + SumOf([x \in DOMAIN f \ {k} |-> f[x]])

\* C21: getActivityStats returns total equal to the number of activities
\* matching the foreign-key filter, byType counts that sum to total (each
\* the number of matching activities of that type), byStatus counts for
\* planned, completed and cancelled equal to the number of matching
\* activities with that status, and upcoming + overdue equal to
\* byStatus.planned.
C21_StatsAddUp ==
    call.fn = "getActivityStats" =>
        LET Matches(a) ==
                /\ call.filters.companyId \in {Undef, ""}
                       \/ a.companyId = call.filters.companyId
                /\ call.filters.contactId \in {Undef, ""}
                       \/ a.contactId = call.filters.contactId
            st == call.stats
        IN /\ call.activities = MapRows(sheet)
           /\ st.total = CountOf(call.activities, Matches)
           /\ SumOf(st.byType) = st.total
           /\ \A t \in DOMAIN st.byType :
                 LET OfType(a) == Matches(a) /\ a.type = t
                 IN st.byType[t] = CountOf(call.activities, OfType)
           /\ \A s \in {"planned", "completed", "cancelled"} :
                 LET OfStatus(a) == Matches(a) /\ a.status = s
                 IN st.byStatus[s] = CountOf(call.activities, OfStatus)
           /\ st.upcoming + st.overdue = st.byStatus.planned

\* getActivityStats('c1') over three activities, two of the company: one
\* planned and overdue, one of an unknown status that no status count holds
C21_Witness ==
    /\ call.fn = "getActivityStats"
    /\ call.filters.companyId = "c1"
    /\ Len(call.activities) = 3
    /\ call.stats.total = 2
    /\ call.stats.byStatus = [planned |-> 1, completed |-> 0, cancelled |-> 0]
    /\ call.stats.overdue = 1
    /\ call.stats.upcoming = 0
    /\ DOMAIN call.stats.byType = {"EMAIL", "MEETING"}

(***************************************************************************)
(* Claims about custom fields                                              *)
(***************************************************************************)
\* the cells that read true: the strings true, 1 and yes in any letter case
ReadsTrue(cell) ==
    cell \in {"true", "TRUE", "True", "1", "yes", "YES", "Yes"}

\* C22: in loadCustomFieldDefinitions each boolean-like column (required,
\* enabled) decodes to true exactly when the cell is one of the strings
\* true, 1 or yes compared case-insensitively; every other cell, an empty
\* or missing one included, decodes to false.
C22_BooleanColumns ==
    call.fn = "loadCustomFieldDefinitions" =>
        \A j \in 1 .. Len(call.out) :
            LET d == call.out[j]
                row == call.activities[d.rowIndex + 1]
            IN /\ d.required = ReadsTrue(row.required)
               /\ d.enabled = ReadsTrue(row.enabled)

\* the definition a row at index idx reads as, without the two columns a
\* disable is to change
KeptPart(row, idx) ==
    LET d == RowToDefinition(row, idx)
    IN [c \in DOMAIN d \ {"enabled", "updatedAt"} |-> d[c]]

C24_KeysUnique ==
    \A p, q \in 1 .. Len(fields) :
        p # q => fields[p].key # fields[q].key

\* C25: after any sequence or interleaving of saveCustomFieldValues calls
\* the CustomFieldValues sheet holds at most one row per (entityType,
\* entityId), and once the last save has completed that row holds the
\* values object of that save and no key of an earlier one.
C25_OneRowPerEntity ==
    /\ \A p, q \in 1 .. Len(fieldValues) :
          (/\ fieldValues[p].entityType = fieldValues[q].entityType
           /\ fieldValues[p].entityId = fieldValues[q].entityId) => p = q
    /\ (call.fn = "saveCustomFieldValues" /\ saves = <<>>) =>
          \E p \in 1 .. Len(fieldValues) :
              /\ fieldValues[p].entityType = call.filters.entityType
              /\ fieldValues[p].entityId = call.filters.entityId
              /\ ParseValues(fieldValues[p].valuesJson) = call.out[1]

\* C26: for the definitions loadCustomFieldDefinitions produces and a values
\* mapping, mount followed immediately by collect returns, for every
\* enabled definition that has a value, that value with its type: a number
\* field with value 500 gives the number 500, a checkbox a boolean, every
\* other type the raw string.
C26_MountCollect ==
    ui.fn = "collect" =>
        \A j \in 1 .. Len(ui.defs) :
            LET d == ui.defs[j]
            IN (d.enabled /\ d.key \in DOMAIN ui.values) =>
                  /\ d.key \in DOMAIN ui.result
                  /\ ui.result[d.key] = ui.values[d.key]

\* the same round trip through the class that reads def.fieldType
C26_MountCollectFieldType ==
    ui.variant = 2 => C26_MountCollect

\* C27: a definition with enabled = false produces no control in the
\* output of mount, no row in detailRows and no key in the result of
\* collect, in each of the two CustomFieldsUI classes.
C27_DisabledExcluded ==
    \A j \in 1 .. Len(ui.defs) :
        LET d == ui.defs[j]
        IN ~d.enabled =>
              /\ \A c \in 1 .. Len(ui.container) :
                    ui.container[c].id \notin {d.key, "cf_" \o d.key}
              /\ \A r \in 1 .. Len(ui.rows) : ui.rows[r] # d.key
              /\ d.key \notin DOMAIN ui.result

\* the same exclusion in the class that tests def.enabled
C27_DisabledExcludedEnabledTest ==
    ui.variant = 1 => C27_DisabledExcluded

(***************************************************************************)
(* Claims about the AI response cache and about two sessions               *)
(***************************************************************************)
\* C28: run side by side with equal TTL on the same sets, gets and clock
\* advances, the AI response cache and the DataService cache return hit or
\* miss identically for every entry age, an age exactly equal to the TTL
\* included.
C28_SamePolicy ==
    (lastGet.key # "" /\ ai.last.key = lastGet.key) =>
        ai.last.result = lastGet.result

\* C29: with two sessions, each with its own cache, over one sheet, every
\* value a cached load returns was the content of the sheet at some instant
\* no more than the TTL before that load.
C29_StaleWithinTtl ==
    peer.last.cached => peer.last.stale <= CACHE_TTL

\* the same bound counted from the instant the sheet was read: the cached
\* value is older than the TTL by no more than the time its response took
C29_StaleWithinTtlOfResponse ==
    peer.last.cached => peer.last.stale <= CACHE_TTL + peer.last.lag

\* a cached load returns rows that another session's write has replaced
C29_StaleSeen ==
    peer.last.cached /\ peer.last.stale > 0

(***************************************************************************)
(* Claims about a call that fails partway                                  *)
(***************************************************************************)
\* the sheet holds the row write (or the clear) of the call
WriteDone(op) ==
    sheet = IF op.op = "delete"
            THEN DeleteActivitySheet(op.before, op.index)
            ELSE SaveActivitySheet(op.before, op.result, op.index)

\* the company history holds the entry of the call, if a company is linked
CompanyDone(op) ==
    companyHistory =
        LogHistory(op.beforeCompany, op.result.companyId, "event",
                   HistoryContent(Verb(op.op), op.result),
                   HistoryMeta(Verb(op.op), op.result))

\* C30: in createActivity, updateActivity and deleteActivity no history
\* append starts until the row write (or clear) has completed, and nothing is
\* rolled back: while a history append is awaited, and after it has failed on
\* its last attempt and the call has failed, the sheet holds the write and
\* the company history holds the entry appended before the contact append.
C30_WriteThenHistory ==
    lastOp.pc \in {"running", "failed"} =>
        LET step == lastOp.steps[lastOp.k]
        IN  /\ step = "write" =>
                  /\ sheet = lastOp.before
                  /\ companyHistory = lastOp.beforeCompany
                  /\ contactHistory = lastOp.beforeContact
            /\ step = "company" =>
                  /\ WriteDone(lastOp)
                  /\ companyHistory = lastOp.beforeCompany
                  /\ contactHistory = lastOp.beforeContact
            /\ step = "contact" =>
                  /\ WriteDone(lastOp)
                  /\ CompanyDone(lastOp)
                  /\ contactHistory = lastOp.beforeContact

\* a call failed on its contact history append after writing the row and
\* appending the company history entry
C30_Witness ==
    /\ lastOp.pc = "failed"
    /\ lastOp.steps[lastOp.k] = "contact"
    /\ sheet # lastOp.before
    /\ companyHistory # lastOp.beforeCompany
    /\ lastOp.i = MAX_RETRIES - 1

(***************************************************************************)
(* Claims about the history calls                                          *)
(***************************************************************************)
\* C31: logCompanyHistory and logContactHistory called with an empty or
\* absent target id complete without error, issue no remote call, and leave
\* the history sheets, the activities sheet and every cache entry unchanged.
C31_NoTargetNoOp ==
    [][(/\ lastOp' # lastOp
        /\ lastOp'.op \in {"logCompanyHistory", "logContactHistory"}
        /\ lastOp'.id \in {Undef, ""}) =>
           /\ lastOp'.ok
           /\ lastOp'.error = ""
           /\ lastOp'.requests = 0
           /\ companyHistory' = companyHistory
           /\ contactHistory' = contactHistory
           /\ sheet' = sheet
           /\ cache' = cache]_vars

\* a history call without a target returned while the cache held the
\* history keys and a history sheet held a row
C31_Witness ==
    /\ lastOp.op \in {"logCompanyHistory", "logContactHistory"}
    /\ lastOp.id \in {Undef, ""}
    /\ {"history_companies", "history_contact_k1"} \subseteq DOMAIN cache
    /\ Len(companyHistory) + Len(contactHistory) > 0

(***************************************************************************)
(* Claims about malformed stored values                                    *)
(***************************************************************************)
\* C32: when the values cell of the row of an entity is malformed JSON,
\* loadCustomFieldValues does not fail: it returns an empty values mapping
\* with the index and the id of that row, and a following
\* saveCustomFieldValues overwrites that row: the entity keeps one row, at
\* the same position and with the same id, holding the saved values.
C32_MalformedValues ==
    LET mine == RowsOfEntity(fieldValues, "company", "c1")
    IN  /\ Cardinality(mine) = 1
        /\ \A p \in mine : fieldValues[p].id = "v_1"
        /\ Len(fieldValues) \in 1 .. 2
        /\ (/\ call.fn = "loadCustomFieldValues"
            /\ ~call.valid
            /\ \E p \in 1 .. Len(call.activities) :
                  /\ call.activities[p].entityId = "c1"
                  /\ call.activities[p].valuesJson \in MalformedCells) =>
               \E p \in 1 .. Len(call.activities) :
                  /\ call.activities[p].entityId = "c1"
                  /\ call.out[1] = [rowIndex |-> p - 1, id |-> "v_1",
                                    values |-> NoValues]
        /\ (call.fn = "saveCustomFieldValues" /\ saves = <<>>) =>
               /\ call.valid
               /\ \A p \in mine :
                     fieldValues[p].valuesJson = JsonStringify(call.out[1])

\* a save has overwritten the malformed row, which is the second row of the
\* sheet, with {"budget":500}
C32_Witness ==
    /\ call.fn = "saveCustomFieldValues"
    /\ saves = <<>>
    /\ Len(fieldValues) = 2
    /\ fieldValues[2].entityId = "c1"
    /\ fieldValues[2].valuesJson = "{\"budget\":500}"

\* loadCustomFieldValues has read the malformed row from the sheet
C32_WitnessLoad ==
    /\ call.fn = "loadCustomFieldValues"
    /\ ~call.valid
    /\ call.out[1].values = NoValues
    /\ \E p \in 1 .. Len(call.activities) :
          call.activities[p].valuesJson \in MalformedCells

(***************************************************************************)
(* Claims about the activities sheet as a whole                            *)
(***************************************************************************)
\* C33: in every state reached from an empty activities sheet through
\* createActivity, updateActivity and deleteActivity calls, no two non-blank
\* rows of the sheet carry the same id.
C33_UniqueIds ==
    \A p, q \in 1 .. Len(sheet) :
        (p # q /\ sheet[p].id # "" /\ sheet[q].id # "") =>
            sheet[p].id # sheet[q].id

\* C34: within one session, after a save of a dataset has completed, no
\* cached load returns data that does not contain the write, even when a
\* load of the dataset was in flight while the save completed.
C34_NoStaleRepopulation ==
    peer.last.cached =>
        Len(peer.last.value) >= peer.done[peer.last.session]

\* C35: updateActivity and deleteActivity fail with the not-found error only
\* if no row of the activities sheet carries the given id; a failed remote
\* read of the sheet is not reported as not-found.
C35_NotFoundOnlyIfAbsent ==
    (lastOp.op \in {"update", "delete"} /\ lastOp.error = "notfound") =>
        \A p \in 1 .. Len(lastOp.before) :
            lastOp.before[p].id # lastOp.id

(***************************************************************************)
(* Claims about a failed disable                                           *)
(***************************************************************************)
\* C36: if the save inside disableCustomFieldDefinition fails after all
\* retries, a subsequent cached loadCustomFieldDefinitions still reports
\* every definition with the enabled value held by the sheet.
C36_CachedLoadAfterFailedDisable ==
    call.fn = "loadCustomFieldDefinitions" =>
        \A j \in 1 .. Len(call.out) :
            LET p == call.out[j].rowIndex + 1
            IN  /\ p \in 1 .. Len(call.activities)
                /\ call.out[j].enabled =
                      RowToDefinition(call.activities[p], p - 1).enabled

====
